---------------------------- MODULE Spec2Model ----------------------------
(***************************************************************************)
(* A model of the QB-Core webhook bot v11 (src/fivem_webhook_manager_v11.py)*)
(* : the scan of a resource tree for webhook URLs (EnhancedScanner), the    *)
(* provisioning of one channel per resource and one endpoint per URL        *)
(* (WebhookCreator), and the rewrite of the files with backups              *)
(* (FileUpdater), as run by the scan-webhooks command.                      *)
(*                                                                          *)
(* Text.  A file's bytes, a decoded text and a URL are sequences of         *)
(* symbols.  A symbol stands for a fixed piece of text:                     *)
(*   "U1", "U2"   the body of a valid webhook URL found in the tree         *)
(*                (scheme, host, /api/webhooks/, an id of 17+ digits, '/',  *)
(*                and a token of 50+ characters);                           *)
(*   "N1", "N2".. the same, for the n-th endpoint the platform creates;     *)
(*   "x"          one more token character ([\w-]), so <<"U1","x">> is the  *)
(*                valid URL whose token extends the token of <<"U1">>;      *)
(*   "s"          text that is no part of a URL (quotes, blanks, code);     *)
(*   "B"          a byte that does not decode as UTF-8.                     *)
(***************************************************************************)
EXTENDS Integers, Sequences, FiniteSets, TLC

\* ------------------------------------------------------------------ bounds

\* Longest file content drawn for the checks of _update_file on its own.
MaxLen == 3
\* Most injected failures (an I/O error on a file, a remote call that raises)
\* in one behaviour of the pipeline.
MaxFaults == 1

\* ------------------------------------------------------------- text helpers

OldHeads == <<"U1", "U2">>

NewHead(n) == "N" \o ToString(n)

\* The heads of the endpoint URLs the platform can hand out in one behaviour:
\* every run creates at most one endpoint per (resource, URL) pair.
MaxEndpoints == 12

NewHeads == {NewHead(n) : n \in 1..MaxEndpoints}

IsHead(sym) == (\E i \in 1..Len(OldHeads) : OldHeads[i] = sym) \/ sym \in NewHeads

\* Python's str.count: the number of non-overlapping occurrences, found
\* left to right.
RECURSIVE CountFrom(_, _, _)
CountFrom(content, old, i) ==
    IF i + Len(old) - 1 > Len(content) THEN 0
    ELSE IF SubSeq(content, i, i + Len(old) - 1) = old
         THEN 1 + CountFrom(content, old, i + Len(old))
         ELSE CountFrom(content, old, i + 1)

Count(content, old) == CountFrom(content, old, 1)

\* Python's str.replace: every non-overlapping occurrence, left to right.
RECURSIVE ReplaceFrom(_, _, _, _)
ReplaceFrom(content, old, new, i) ==
    IF i > Len(content) THEN << >>
    ELSE IF i + Len(old) - 1 <= Len(content)
            /\ SubSeq(content, i, i + Len(old) - 1) = old
         THEN new \o ReplaceFrom(content, old, new, i + Len(old))
         ELSE <<content[i]>> \o ReplaceFrom(content, old, new, i + 1)

\* str.replace(old, new, 1): the first occurrence only.
RECURSIVE ReplaceFirstFrom(_, _, _, _)
ReplaceFirstFrom(content, old, new, i) ==
    IF i > Len(content) THEN << >>
    ELSE IF i + Len(old) - 1 <= Len(content)
            /\ SubSeq(content, i, i + Len(old) - 1) = old
         THEN new \o SubSeq(content, i + Len(old), Len(content))
         ELSE <<content[i]>> \o ReplaceFirstFrom(content, old, new, i + 1)

ReplaceFirst(content, old, new) == ReplaceFirstFrom(content, old, new, 1)

Replace(content, old, new) == ReplaceFrom(content, old, new, 1)

\* open(path, 'r', encoding='utf-8', errors='ignore').read(): the bytes that
\* do not decode are dropped.
RECURSIVE Decode(_)
Decode(bytes) ==
    IF bytes = << >> THEN << >>
    ELSE IF Head(bytes) = "B" THEN Decode(Tail(bytes))
         ELSE <<Head(bytes)>> \o Decode(Tail(bytes))

\* A dict is a sequence of <<key, value>> pairs in insertion order, as
\* Python iterates it.
DictKeys(d) == {d[i][1] : i \in 1..Len(d)}

DictHas(d, k) == \E i \in 1..Len(d) : d[i][1] = k

DictGet(d, k) == d[CHOOSE i \in 1..Len(d) : d[i][1] = k][2]

\* d[k] = v: a present key keeps its place, a new key goes last.
\* The pair added with no look at the keys already there.
DictAppend(d, k, v) == Append(d, <<k, v>>)

\* dict.setdefault(k, v): a present key keeps its value.
DictKeep(d, k, v) == IF DictHas(d, k) THEN d ELSE Append(d, <<k, v>>)

DictSet(d, k, v) ==
    IF DictHas(d, k)
    THEN [i \in 1..Len(d) |-> IF d[i][1] = k THEN <<k, v>> ELSE d[i]]
    ELSE Append(d, <<k, v>>)

\* ------------------------------------------------ FileUpdater._update_file

\* The loop over webhook_mappings.items(): the pairs are applied one after
\* the other, each to the result of the ones before it.  The result is the
\* content and the number of replacements counted.
RECURSIVE ApplyMappings(_, _, _)
ApplyMappings(content, mappings, i) ==
    IF i > Len(mappings) THEN [content |-> content, replacements |-> 0]
    ELSE LET old == mappings[i][1]
             new == mappings[i][2]
         IN IF Count(content, old) > 0
            THEN LET rest == ApplyMappings(Replace(content, old, new), mappings, i + 1)
                 IN [content |-> rest.content,
                     replacements |-> Count(content, old) + rest.replacements]
            ELSE ApplyMappings(content, mappings, i + 1)

\* What _update_file computes from the bytes it reads.
Rewrite(bytes, mappings) ==
    ApplyMappings(Decode(bytes), mappings, 1)

\* ------------------------------------------------------------------- names

\* A name (a path segment, a resource name, a channel name) is a sequence of
\* one-character strings.  Chars lists the characters of the model in code
\* point order, which is the order Python's sorted() compares strings by.
Chars == <<" ", "-", ".", "0", "1", "2", "A", "B", "C", "D", "E", "F", "G",
           "H", "I", "J", "K", "L", "M", "N", "O", "P", "Q", "R", "S", "T",
           "U", "V", "W", "X", "Y", "Z", "[", "]", "_", "a", "b", "c", "d",
           "e", "f", "g", "h", "i", "j", "k", "l", "m", "n", "o", "p", "q",
           "r", "s", "t", "u", "v", "w", "x", "y", "z">>

Ord(c) == CHOOSE i \in 1..Len(Chars) : Chars[i] = c

IsLowerCh(c) == Ord(c) >= Ord("a") /\ Ord(c) <= Ord("z")
IsDigit(c) == Ord(c) >= Ord("0") /\ Ord(c) <= Ord("2")
\* \w of Python's re
IsWordCh(c) == (Ord(c) >= Ord("A") /\ Ord(c) <= Ord("Z")) \/ IsLowerCh(c) \/ IsDigit(c) \/ c = "_"

Lower(name) ==
    [i \in 1..Len(name) |-> IF (Ord(name[i]) >= Ord("A") /\ Ord(name[i]) <= Ord("Z"))
                            THEN Chars[Ord(name[i]) - Ord("A") + Ord("a")]
                            ELSE name[i]]

\* Python's order on strings: the first differing character decides, and a
\* proper prefix comes first.
RECURSIVE NameLess(_, _)
NameLess(a, b) ==
    IF b = << >> THEN FALSE
    ELSE IF a = << >> THEN TRUE
    ELSE IF Head(a) # Head(b) THEN Ord(Head(a)) < Ord(Head(b))
    ELSE NameLess(Tail(a), Tail(b))

\* str.strip(chars): the characters of the set are removed from both ends.
RECURSIVE LStrip(_, _)
LStrip(name, set) ==
    IF name # << >> /\ Head(name) \in set THEN LStrip(Tail(name), set) ELSE name

RECURSIVE RStrip(_, _)
RStrip(name, set) ==
    IF name # << >> /\ name[Len(name)] \in set
    THEN RStrip(SubSeq(name, 1, Len(name) - 1), set)
    ELSE name

Strip(name, set) == RStrip(LStrip(name, set), set)

Range(seq) == {seq[i] : i \in 1..Len(seq)}

\* ------------------------------- EnhancedScanner._extract_resource_name

seg_resources == <<"r", "e", "s", "o", "u", "r", "c", "e", "s">>
unknown == <<"u", "n", "k", "n", "o", "w", "n">>

\* parts.index('resources'), 0 when the segment is absent.
FirstIndex(parts, seg) ==
    IF \E i \in 1..Len(parts) : parts[i] = seg
    THEN CHOOSE i \in 1..Len(parts) :
            parts[i] = seg /\ \A j \in 1..(i - 1) : parts[j] # seg
    ELSE 0

\* The bracket rule tried before the 'resources' rule.
ChosenSegmentBracketFirst(parts) ==
    LET res_idx == FirstIndex(parts, seg_resources)
    IN IF parts[1] # << >> /\ parts[1][1] = "[" /\ parts[1][Len(parts[1])] = "]"
       THEN (IF Len(parts) >= 2 THEN parts[2] ELSE parts[1])
       ELSE IF res_idx > 0 /\ res_idx + 1 <= Len(parts) THEN parts[res_idx + 1]
       ELSE parts[1]

\* The segment chosen before the stripping; << >> stands for None and for
\* the empty string, which `if not resource_name` treats alike.
ChosenSegment(parts) ==
    LET res_idx == FirstIndex(parts, seg_resources)
        after == IF res_idx > 0 /\ res_idx + 1 <= Len(parts)
                 THEN parts[res_idx + 1] ELSE << >>
    IN IF after # << >> THEN after
       ELSE IF parts[1] # << >> /\ parts[1][1] = "[" /\ parts[1][Len(parts[1])] = "]"
            THEN (IF Len(parts) >= 2 THEN parts[2] ELSE parts[1])
            ELSE parts[1]

\* The stripped name returned whether or not anything is left of it.
extract_resource_name_unguarded(parts) ==
    IF parts = << >> THEN unknown
    ELSE Strip(Strip(ChosenSegment(parts), {"[", "]"}), {" "})

\* `parts` is the file's path relative to base_path, the file's own name
\* last.
extract_resource_name(parts) ==
    IF parts = << >> THEN unknown
    ELSE LET chosen == ChosenSegment(parts)
             stripped == Strip(Strip(chosen, {"[", "]"}), {" "})
         IN IF chosen # << >> /\ stripped # << >> THEN stripped ELSE unknown

\* A file path handed to _extract_resource_name: whether it lies under
\* base_path, and its segments from there on.  relative_to raises for a path
\* that does not, and the except clause answers 'unknown' (lines 169-170 and
\* 198-199).
FilePath(under, parts) == [under |-> under, parts |-> parts]

\* ------------------------------------- EnhancedScanner._is_valid_webhook

\* The characters of a string, run by run.  A piece [c, n] is either a word
\* of the URL grammar, written once (n = 1), or n characters of one class:
\* "7" a digit, "a" a letter, "-" a dash or an underscore, "?" any character
\* that is none of these and not '/' (a quote, a dot, a blank), and "/".
Piece(c, n) == [c |-> c, n |-> n]

word_https == "https:"
word_host == "discord.com"
word_apphost == "discordapp.com"
word_api == "api"
word_webhooks == "webhooks"

\* len() of the words.
WordLen ==
    [w \in {word_https, word_host, word_apphost, word_api, word_webhooks} |->
        CASE w = word_https -> 6
          [] w = word_host -> 11
          [] w = word_apphost -> 14
          [] w = word_api -> 3
          [] w = word_webhooks -> 8]

\* len(url)
RECURSIVE StrLen(_)
StrLen(str) ==
    IF str = << >> THEN 0
    ELSE (IF Head(str).c \in DOMAIN WordLen THEN WordLen[Head(str).c] ELSE Head(str).n)
         + StrLen(Tail(str))

slash == Piece("/", 1)

\* 'discord.com/api/webhooks/' and 'discordapp.com/api/webhooks/' (line 207)
domain_discord ==
    <<Piece(word_host, 1), slash, Piece(word_api, 1), slash, Piece(word_webhooks, 1), slash>>
domain_discordapp ==
    <<Piece(word_apphost, 1), slash, Piece(word_api, 1), slash, Piece(word_webhooks, 1), slash>>

\* `domain in url_lower`
Within(domain, str) ==
    \E i \in 1..(Len(str) - Len(domain) + 1) :
        SubSeq(str, i, i + Len(domain) - 1) = domain

\* url.split('/'): the segments between the slashes, empty ones kept.
RECURSIVE SplitFrom(_, _, _)
SplitFrom(str, i, seg) ==
    IF i > Len(str) THEN <<seg>>
    ELSE IF str[i] = slash
         THEN <<seg>> \o SplitFrom(str, i + 1, << >>)
         ELSE SplitFrom(str, i + 1, Append(seg, str[i]))

Split(str) == SplitFrom(str, 1, << >>)

\* webhook_id.isdigit(): not empty, digits only.
isdigit(seg) == seg # << >> /\ \A i \in 1..Len(seg) : seg[i].c = "7"

\* c.isalnum() or c in '-_', for every character of the segment.
IsTokenText(seg) ==
    \A i \in 1..Len(seg) :
        \/ seg[i].c \in {"7", "a", "-"}
        \/ seg[i].c \in {word_api, word_webhooks}

MinUrlLen == 50
MinParts == 7
MinIdLen == 17
MinTokenLen == 50

\* The validator with one digit fewer asked of the id.
is_valid_webhook_short_id(url) ==
    IF url = << >> \/ StrLen(url) < MinUrlLen THEN FALSE
    ELSE IF ~(Within(domain_discord, url) \/ Within(domain_discordapp, url)) THEN FALSE
    ELSE LET parts == Split(url)
         IN IF Len(parts) < MinParts THEN FALSE
            ELSE LET webhook_id == parts[Len(parts) - 1]
                     webhook_token == parts[Len(parts)]
                 IN IF ~isdigit(webhook_id) \/ StrLen(webhook_id) < MinIdLen - 1 THEN FALSE
                    ELSE IF StrLen(webhook_token) < MinTokenLen
                            \/ ~IsTokenText(webhook_token) THEN FALSE
                    ELSE TRUE

\* Lines 201-223, return by return.
is_valid_webhook(url) ==
    IF url = << >> \/ StrLen(url) < MinUrlLen THEN FALSE
    ELSE IF ~(Within(domain_discord, url) \/ Within(domain_discordapp, url)) THEN FALSE
    ELSE LET parts == Split(url)
         IN IF Len(parts) < MinParts THEN FALSE
            ELSE LET webhook_id == parts[Len(parts) - 1]
                     webhook_token == parts[Len(parts)]
                 IN IF ~isdigit(webhook_id) \/ StrLen(webhook_id) < MinIdLen THEN FALSE
                    ELSE IF StrLen(webhook_token) < MinTokenLen
                            \/ ~IsTokenText(webhook_token) THEN FALSE
                    ELSE TRUE

\* ------------------------------------------- EnhancedScanner._scan_file

scheme == <<Piece(word_https, 1), slash, slash>>

\* The characters a symbol of a URL stands for.  "V" is the body of a URL
\* the direct pattern matches and the validator refuses: its id has 5 digits.
\* The ids of the other bodies grow in length in the order of HeadRank, so
\* that order is the order of the strings: where two ids differ in length,
\* '/' is compared with a digit, and '/' comes first.
SymbolText(sym) ==
    CASE sym = "U1" -> scheme \o domain_discord \o <<Piece("7", 17), slash, Piece("a", 50)>>
      [] sym = "U2" -> scheme \o domain_discord \o <<Piece("7", 18), slash, Piece("a", 50)>>
      [] sym = "V" -> scheme \o domain_discord \o <<Piece("7", 5), slash, Piece("a", 50)>>
      [] sym = "x" -> <<Piece("a", 1)>>
      [] sym = "s" -> <<Piece("?", 1)>>
      [] sym = "k" -> <<Piece("?", 1), Piece("a", 7), Piece("?", 3)>>
      [] sym \in NewHeads ->
            scheme \o domain_discord
            \o <<Piece("7", 18 + (CHOOSE n \in 1..MaxEndpoints : NewHead(n) = sym)),
                 slash, Piece("a", 68)>>

\* The characters of a URL of the model.
RECURSIVE UrlText(_)
UrlText(url) == IF url = << >> THEN << >> ELSE SymbolText(Head(url)) \o UrlText(Tail(url))

\* The direct pattern matches the body of a URL whether or not the validator
\* accepts it.
IsUrlBody(sym) == IsHead(sym) \/ sym = "V"

\* The end of the match of webhook_url_pattern that starts at i: the token
\* part [\w-]+ is greedy.
RECURSIVE MatchEnd(_, _)
MatchEnd(text, j) ==
    IF j + 1 <= Len(text) /\ text[j + 1] = "x" THEN MatchEnd(text, j + 1) ELSE j

\* webhook_url_pattern.finditer(content): the matches, left to right.
RECURSIVE FindDirect(_, _)
FindDirect(text, i) ==
    IF i > Len(text) THEN << >>
    ELSE IF IsUrlBody(text[i])
         THEN <<SubSeq(text, i, MatchEnd(text, i))>>
              \o FindDirect(text, MatchEnd(text, i) + 1)
         ELSE FindDirect(text, i + 1)

\* A key with what follows it up to and with the quote that opens the value:
\*   "K"  ` webhook = "`        "W"  ` webhookurl = "`
\*   "J"  `"webhook_url": "`    "L"  `"url": "`
\* and "Q", the quote that closes a value.  K and W begin with a blank, J and
\* L with a quote.
webhook_value_patterns ==
    << [keys |-> {"J"}, discord |-> FALSE],       \* line 90
       [keys |-> {"K"}, discord |-> FALSE],       \* line 91
       [keys |-> {"W"}, discord |-> FALSE],       \* line 92
       [keys |-> {"W"}, discord |-> FALSE],       \* line 93
       [keys |-> {"K"}, discord |-> FALSE],       \* line 94
       [keys |-> {"L"}, discord |-> TRUE] >>      \* line 95

\* The end of the run of symbols without a quote that starts at j + 1.
RECURSIVE RunEnd(_, _)
RunEnd(text, j) ==
    IF j + 1 <= Len(text) /\ text[j + 1] \notin {"K", "W", "J", "L", "Q"}
    THEN RunEnd(text, j + 1)
    ELSE j

\* group(1) of the match of a value pattern at the key at i, << >> when the
\* pattern does not match there: ([^"']+) runs to the next quote, which is Q,
\* the first character of J or L, or the last of K or W, whose text before
\* its quote ("k") is then part of the value.
ValueAt(text, i, pattern) ==
    LET j == RunEnd(text, i)
        run == SubSeq(text, i + 1, j)
        value == IF j + 1 > Len(text) THEN << >>
                 ELSE IF (text[j + 1] \in {"J", "L", "Q"}) THEN run
                 ELSE run \o <<"k">>
    IN IF pattern.discord /\ (value = << >> \/ ~IsUrlBody(value[1])) THEN << >>
       ELSE value

\* pattern.finditer(content) for one value pattern: the groups, left to right;
\* a match ends with the quote that closes it.
RECURSIVE FindValues(_, _, _)
FindValues(text, i, pattern) ==
    IF i > Len(text) THEN << >>
    ELSE IF text[i] \in pattern.keys /\ ValueAt(text, i, pattern) # << >>
         THEN <<ValueAt(text, i, pattern)>>
              \o FindValues(text, RunEnd(text, i) + 2, pattern)
         ELSE FindValues(text, i + 1, pattern)

\* The loop of lines 147-148 over the patterns from the n-th on.
RECURSIVE FindAllValues(_, _)
FindAllValues(text, n) ==
    IF n > Len(webhook_value_patterns) THEN << >>
    ELSE FindValues(text, 1, webhook_value_patterns[n]) \o FindAllValues(text, n + 1)

\* The candidates of one file in the order _scan_file meets them: those of
\* the direct pattern, then those of each value pattern.
Candidates(text) == FindDirect(text, 1) \o FindAllValues(text, 1)

FnSet(f, k, v) == [x \in (DOMAIN f) \cup {k} |-> IF x = k THEN v ELSE f[x]]

\* The scanner's indexes and counters before any file is scanned.
EmptyScan ==
    [webhooks_by_resource |-> << >>,
     file_occurrences |-> << >>,
     webhooks_found |-> 0,
     files_with_webhooks |-> 0,
     files_scanned |-> 0,
     resources_found |-> {}]

\* One accepted candidate: lines 142-145 (and 152-155).
AddWebhook(sc, url, f, res) ==
    [sc EXCEPT
        !.webhooks_by_resource =
            FnSet(@, res, (IF res \in DOMAIN @ THEN @[res] ELSE {}) \cup {url}),
        !.file_occurrences =
            FnSet(@, url, (IF url \in DOMAIN @ THEN @[url] ELSE << >>)
                          \o << <<f, res>> >>),
        !.webhooks_found = @ + 1,
        !.resources_found = @ \cup {res}]

\* The candidates taken without a call of the validator.
RECURSIVE AddCandidatesUnchecked(_, _, _, _, _)
AddCandidatesUnchecked(sc, cands, i, f, res) ==
    IF i > Len(cands) THEN sc
    ELSE AddCandidatesUnchecked(AddWebhook(sc, cands[i], f, res), cands, i + 1, f, res)

RECURSIVE AddCandidates(_, _, _, _, _)
AddCandidates(sc, cands, i, f, res) ==
    IF i > Len(cands) THEN sc
    ELSE AddCandidates(
            IF is_valid_webhook(UrlText(cands[i])) THEN AddWebhook(sc, cands[i], f, res) ELSE sc,
            cands, i + 1, f, res)

\* _scan_file with files_with_webhooks raised once for every accepted
\* candidate of the file.
scan_file_per_webhook(sc, f, parts, bytes) ==
    LET text == Decode(bytes)
        res == extract_resource_name(parts)
        after == AddCandidates(sc, Candidates(text), 1, f, res)
    IN [after EXCEPT !.files_with_webhooks = @ + (after.webhooks_found - sc.webhooks_found)]

\* _scan_file on a file that can be read.
scan_file(sc, f, parts, bytes) ==
    LET text == Decode(bytes)
        res == extract_resource_name(parts)
        after == AddCandidates(sc, Candidates(text), 1, f, res)
    IN IF after.webhooks_found > sc.webhooks_found
       THEN [after EXCEPT !.files_with_webhooks = @ + 1]
       ELSE after

\* ------------------------------------------ WebhookCreator._sanitize_name

word_discord == <<"d", "i", "s", "c", "o", "r", "d">>
word_clyde == <<"c", "l", "y", "d", "e">>
suffix_logs == <<"-", "l", "o", "g", "s">>
\* Discord's limit on the length of a channel name, as line 300 applies it.
MaxChannelName == 100

\* re.sub(r'\bword\b', repl, name): the occurrences of the word that have no
\* word character on either side.
RECURSIVE SubWord(_, _, _, _)
SubWord(name, word, repl, i) ==
    IF i > Len(name) THEN << >>
    ELSE IF /\ i + Len(word) - 1 <= Len(name)
            /\ SubSeq(name, i, i + Len(word) - 1) = word
            /\ (i = 1 \/ ~IsWordCh(name[i - 1]))
            /\ (i + Len(word) > Len(name) \/ ~IsWordCh(name[i + Len(word)]))
         THEN repl \o SubWord(name, word, repl, i + Len(word))
         ELSE <<name[i]>> \o SubWord(name, word, repl, i + 1)

\* re.sub(r'[\s_]+', '-', name) and re.sub(r'-+', '-', name): every run of
\* characters of the set becomes one hyphen.
RECURSIVE SubRuns(_, _)
SubRuns(name, set) ==
    IF name = << >> THEN << >>
    ELSE IF Head(name) \in set
         THEN <<"-">> \o SubRuns(LStrip(name, set), set)
         ELSE <<Head(name)>> \o SubRuns(Tail(name), set)

\* re.sub(r'[^a-z0-9\-]', '', name)
RECURSIVE KeepSlug(_)
KeepSlug(name) ==
    IF name = << >> THEN << >>
    ELSE IF IsLowerCh(Head(name)) \/ IsDigit(Head(name)) \/ Head(name) = "-"
         THEN <<Head(name)>> \o KeepSlug(Tail(name))
         ELSE KeepSlug(Tail(name))

sanitize_name(name) ==
    LET lowered == Lower(name)
        no_discord == SubWord(lowered, word_discord, <<"d", "i", "s", "c">>, 1)
        no_clyde == SubWord(no_discord, word_clyde,
                            <<"a", "s", "s", "i", "s", "t", "a", "n", "t">>, 1)
        hyphened == SubRuns(no_clyde, {" ", "_"})
        kept == KeepSlug(hyphened)
        collapsed == SubRuns(kept, {"-"})
        trimmed == Strip(collapsed, {"-"})
    IN IF trimmed # << >>
       THEN SubSeq(trimmed, 1, IF Len(trimmed) < MaxChannelName
                               THEN Len(trimmed) ELSE MaxChannelName)
       ELSE <<"r", "e", "s", "o", "u", "r", "c", "e">> \o suffix_logs

\* The channel name create_all asks for: _sanitize_name(f"{resource_name}-logs")
ChannelName(resource) == sanitize_name(resource \o suffix_logs)

\* ------------------------------------------------------------- the state

VARIABLES
    tree,            \* file -> the bytes of the file (the tree under base_path)
    create_backups,  \* config.create_backups
    category,        \* TRUE while guild.get_channel(category_id) finds the category
    channels,        \* the text channels of the category: records [id, name]
    next_id,         \* the id the platform gives the next channel it creates
    endpoints,       \* the webhooks created so far: records [channel, name, url]
    faults,          \* the failures injected so far
    pc,              \* run -> where the scan_webhooks invocation stands
    scanner,         \* run -> the EnhancedScanner of the run
    creator,         \* run -> the WebhookCreator of the run
    updater,         \* run -> the FileUpdater of the run
    hist,            \* run -> what the run did (history, read by the properties only)
    call             \* one call of a function on its own: [op, input, output]

vars == <<tree, create_backups, category, channels, next_id, endpoints, faults,
          pc, scanner, creator, updater, hist, call>>

\* No function is called on its own.
\* output holds the value returned, once the call has returned.
NoCall == [op |-> "none", input |-> << >>, output |-> << >>]

\* Two invocations of scan_webhooks.
Runs == {1, 2}

Files == {1, 2, 3}

seg_shop == <<"s", "h", "o", "p">>
seg_bank == <<"b", "a", "n", "k">>
seg_config_lua == <<"c", "o", "n", "f", "i", "g", ".", "l", "u", "a">>

\* The candidate files of the tree, by their path relative to base_path, in
\* the order os.walk yields them:
\*   resources/shop/config.lua, resources/shop/alerts.lua, resources/bank/config.lua
Paths ==
    << <<seg_resources, seg_shop, seg_config_lua>>,
       <<seg_resources, seg_shop, <<"a", "l", "e", "r", "t", "s", ".", "l", "u", "a">> >>,
       <<seg_resources, seg_bank, seg_config_lua>> >>

\* What each file of the tree can hold when the first run starts: no URL, a
\* URL, the same URL as another file of the same or of another resource, a
\* second URL, a URL that extends another one, bytes that do not decode, a
\* URL as the value of the key `webhook`, and a value the patterns match and
\* the validator refuses.  A URL in a file is followed by a character that
\* ends its token or by more token characters, never directly by a URL.
FileContents ==
    << { <<"s">>, <<"K", "U1", "Q">>, <<"B", "U1", "s", "U1">> },
       { <<"s">>, <<"U1">>, <<"U2">>, <<"U1", "x">> },
       { <<"s">>, <<"U1">>, <<"U1", "x">>, <<"K", "V", "Q">> } >>

\* --------------------------------------------------------------- sorting

HeadRank(h) ==
    IF \E i \in 1..Len(OldHeads) : OldHeads[i] = h
    THEN CHOOSE i \in 1..Len(OldHeads) : OldHeads[i] = h
    ELSE Len(OldHeads) + (CHOOSE n \in 1..MaxEndpoints : NewHead(n) = h)

\* The order of sorted() on valid URLs: the URL bodies are ordered as listed
\* (the platform's ids grow, so a created endpoint comes after the URLs of
\* the tree), and a URL precedes its extensions.
UrlLess(a, b) ==
    \/ HeadRank(a[1]) < HeadRank(b[1])
    \/ a[1] = b[1] /\ Len(a) < Len(b)

\* The URLs from the last to the first.
RECURSIVE SortedUrlsDescending(_)
SortedUrlsDescending(S) ==
    IF S = {} THEN << >>
    ELSE LET m == CHOOSE x \in S : \A y \in S \ {x} : UrlLess(y, x)
         IN <<m>> \o SortedUrlsDescending(S \ {m})

\* sorted(old_webhooks)
RECURSIVE SortedUrls(_)
SortedUrls(S) ==
    IF S = {} THEN << >>
    ELSE LET m == CHOOSE x \in S : \A y \in S \ {x} : UrlLess(x, y)
         IN <<m>> \o SortedUrls(S \ {m})

\* The resource names of sorted(webhooks_by_resource.items())
RECURSIVE SortedNames(_)
SortedNames(S) ==
    IF S = {} THEN << >>
    ELSE LET m == CHOOSE x \in S : \A y \in S \ {x} : NameLess(x, y)
         IN <<m>> \o SortedNames(S \ {m})

\* ------------------------------------------------------------------ Init

IdleCreator ==
    [webhook_mappings |-> << >>, created_channels |-> << >>,
     idx |-> 1, widx |-> 1, channel |-> 0, result |-> "none"]

IdleUpdater ==
    [stats |-> [files_updated |-> 0, replacements |-> 0, files_backed_up |-> 0],
     files_to_update |-> {},  \* the files update_all has still to visit
     backup_made |-> FALSE,   \* update_all made the run's backup directory
     backup_dir |-> {}]       \* the files of the run's backup directory

IdleHist ==
    [pre |-> << >>,          \* the tree when the run started
     outcome |-> "none",     \* how scan_webhooks ended
     last |-> "none",        \* the last remote event: "call" or "sleep"
     unpaced |-> FALSE,      \* a remote call followed another with no sleep between
     visited |-> << >>,      \* the resources in the order their iterations began
     seen |-> {},            \* the ids of the channels at the run's last lookup
     made |-> << >>,         \* the channels the run created, with what it had seen
     hooks |-> << >>,        \* the create_webhook calls that succeeded, in order
     attempted |-> {},       \* the resources whose iteration began
     failed |-> {},          \* the resources whose iteration raised
     failed_at |-> << >>,    \* resource -> what the run had recorded for it when it raised
     iter_mappings |-> << >>,\* webhook_mappings when the current iteration began
     channels_created |-> 0, \* create_text_channel calls that succeeded
     endpoints_created |-> 0,\* create_webhook calls that succeeded
     aborted_at |-> 0,       \* the iteration at which the category was missing
     unread |-> {},          \* files the scan could not read
     backup_failed |-> {},   \* files whose backup could not be written
     io_failed |-> {},       \* files _update_file gave up on
     written |-> {},         \* files _update_file overwrote
     update_calls |-> [f \in Files |-> 0]]  \* file -> the calls of _update_file on it

Init ==
    /\ tree \in {t \in [Files -> UNION {FileContents[f] : f \in Files}] :
                    \A f \in Files : t[f] \in FileContents[f]}
    /\ create_backups \in BOOLEAN
    /\ category \in BOOLEAN
    /\ channels = {}
    /\ next_id = 1
    /\ endpoints = << >>
    /\ faults = 0
    /\ pc = [r \in Runs |-> "idle"]
    /\ scanner = [r \in Runs |-> EmptyScan]
    /\ creator = [r \in Runs |-> IdleCreator]
    /\ updater = [r \in Runs |-> IdleUpdater]
    /\ hist = [r \in Runs |-> IdleHist]
    /\ call = NoCall

\* ---------------------------------------------------- EnhancedScanner.scan

\* The loop of scan over the files, in order; _scan_file swallows the error
\* of a file it cannot read.
RECURSIVE ScanFiles(_, _, _)
ScanFiles(sc, f, unreadable) ==
    IF f \notin Files THEN sc
    ELSE ScanFiles(IF f \in unreadable THEN sc
                   ELSE scan_file(sc, f, Paths[f], tree[f]),
                   f + 1, unreadable)

ScanResult(unreadable) ==
    [ScanFiles(EmptyScan, 1, unreadable) EXCEPT !.files_scanned = Cardinality(Files)]

\* scan_webhooks up to the call of create_all (lines 483-495): the scan, and
\* the early return when it found nothing.
ScanStage(r) ==
    /\ pc[r] = "idle"
    /\ \E unreadable \in SUBSET Files :
        /\ faults + Cardinality(unreadable) <= MaxFaults
        /\ LET sc == ScanResult(unreadable)
               found == DOMAIN sc.webhooks_by_resource # {}
           IN /\ scanner' = [scanner EXCEPT ![r] = sc]
              /\ pc' = [pc EXCEPT ![r] = IF found THEN "create" ELSE "finished"]
              /\ hist' = [hist EXCEPT ![r].pre = tree,
                                      ![r].unread = unreadable,
                                      ![r].outcome = IF found THEN "none" ELSE "no_webhooks"]
              /\ faults' = faults + Cardinality(unreadable)
    /\ UNCHANGED call
    /\ UNCHANGED <<tree, create_backups, category, channels, next_id, endpoints,
                   creator, updater>>

\* The command is invoked when the run before it is over: runs follow one
\* another.
Scan(r) ==
    /\ \A q \in Runs : q < r => pc[q] = "finished"
    /\ ScanStage(r)

\* ---------------------------------------------- WebhookCreator.create_all

Items(r) == SortedNames(DOMAIN scanner[r].webhooks_by_resource)

Resource(r) == Items(r)[creator[r].idx]

OldWebhooks(r) == scanner[r].webhooks_by_resource[Resource(r)]

InLoop(r) == pc[r] = "create" /\ creator[r].idx <= Len(Items(r))

\* The record lines 263-268 append.
ChannelRecord(r, id) ==
    [name |-> ChannelName(Resource(r)), id |-> id, resource |-> Resource(r),
     webhook_count |-> Cardinality(OldWebhooks(r))]

\* A remote call is made: it is unpaced when the last remote event was a
\* call too.
Called(h) == [h EXCEPT !.unpaced = @ \/ h.last = "call", !.last = "call"]

\* What the run had recorded for the resource when its iteration raised.
Recorded(r) ==
    [channel_record |-> \E i \in 1..Len(creator[r].created_channels) :
                            creator[r].created_channels[i].resource = Resource(r),
     added |-> {u \in OldWebhooks(r) :
                  /\ DictHas(creator[r].webhook_mappings, u)
                  /\ \/ ~DictHas(hist[r].iter_mappings, u)
                     \/ DictGet(hist[r].iter_mappings, u)
                            # DictGet(creator[r].webhook_mappings, u)}]

\* files_to_update built from the first occurrence of each URL only.
FilesToUpdateFirst(mappings, file_occurrences) ==
    {f \in Files : \E i \in 1..Len(mappings) :
        /\ mappings[i][1] \in DOMAIN file_occurrences
        /\ file_occurrences[mappings[i][1]][1][1] = f}

\* Every file of the tree taken as a file to update.
FilesToUpdateAll(mappings, file_occurrences) == Files

\* files_to_update of update_all (lines 320-323)
FilesToUpdate(mappings, file_occurrences) ==
    {f \in Files : \E i \in 1..Len(mappings) :
        /\ mappings[i][1] \in DOMAIN file_occurrences
        /\ \E j \in 1..Len(file_occurrences[mappings[i][1]]) :
              file_occurrences[mappings[i][1]][j][1] = f}

\* scan_webhooks going on to update_all whatever create_all returned.
CreateReturnUnchecked(r) ==
    /\ pc[r] = "create"
    /\ creator[r].idx > Len(Items(r))
    /\ creator' = [creator EXCEPT ![r].result = "false"]
    /\ updater' = [updater EXCEPT
            ![r].backup_made = create_backups,
            ![r].files_to_update =
                FilesToUpdate(creator[r].webhook_mappings, scanner[r].file_occurrences)]
    /\ pc' = [pc EXCEPT ![r] = "update"]
    /\ UNCHANGED call
    /\ UNCHANGED <<tree, create_backups, category, channels, next_id, endpoints,
                   faults, scanner, hist>>

\* The loop is over: create_all returns True and scan_webhooks goes on to
\* update_all, which computes the files to update (lines 285, 498-503, 312-326).
CreateReturn(r) ==
    /\ pc[r] = "create"
    /\ creator[r].idx > Len(Items(r))
    /\ creator' = [creator EXCEPT ![r].result = "true"]
    /\ updater' = [updater EXCEPT
            ![r].backup_made = create_backups,
            ![r].files_to_update =
                FilesToUpdate(creator[r].webhook_mappings, scanner[r].file_occurrences)]
    /\ pc' = [pc EXCEPT ![r] = "update"]
    /\ UNCHANGED call
    /\ UNCHANGED <<tree, create_backups, category, channels, next_id, endpoints,
                   faults, scanner, hist>>

\* Lines 245-249: the category is not found; create_all returns False and
\* scan_webhooks returns (lines 498-499).
CategoryMissing(r) ==
    /\ InLoop(r)
    /\ ~category
    /\ creator' = [creator EXCEPT ![r].result = "false"]
    /\ pc' = [pc EXCEPT ![r] = "finished"]
    /\ hist' = [hist EXCEPT ![r].outcome = "aborted",
                            ![r].aborted_at = creator[r].idx,
                            ![r].attempted = @ \cup {Resource(r)},
                            ![r].visited = Append(@, Resource(r))]
    /\ UNCHANGED call
    /\ UNCHANGED <<tree, create_backups, category, channels, next_id, endpoints,
                   faults, scanner, updater>>

\* Lines 251-256 and 263-268: a channel of that name exists in the category.
Reuse(r) ==
    /\ InLoop(r)
    /\ category
    /\ \E ch \in channels :
        /\ ch.name = ChannelName(Resource(r))
        /\ creator' = [creator EXCEPT
                ![r].channel = ch.id,
                ![r].created_channels = Append(@, ChannelRecord(r, ch.id)),
                ![r].widx = 1]
    /\ pc' = [pc EXCEPT ![r] = "hook"]
    /\ hist' = [hist EXCEPT ![r].attempted = @ \cup {Resource(r)},
                            ![r].visited = Append(@, Resource(r)),
                            ![r].iter_mappings = creator[r].webhook_mappings]
    /\ UNCHANGED call
    /\ UNCHANGED <<tree, create_backups, category, channels, next_id, endpoints,
                   faults, scanner, updater>>

\* The lookup made with the resource name instead of the channel name.
ExistingChannelByResource(r) == \E ch \in channels : ch.name = Resource(r)

\* The lookup that never finds a channel.
ExistingChannelNever(r) == FALSE

ExistingChannel(r) == \E ch \in channels : ch.name = ChannelName(Resource(r))

\* Line 258: no channel of that name exists; create_text_channel is called
\* and create_all waits for the platform's answer.
RequestChannel(r) ==
    /\ InLoop(r)
    /\ category
    /\ ~ExistingChannel(r)
    /\ pc' = [pc EXCEPT ![r] = "channel"]
    /\ hist' = [hist EXCEPT ![r] = [Called(@) EXCEPT
                    !.attempted = @ \cup {Resource(r)},
                    !.visited = Append(@, Resource(r)),
                    !.seen = {ch.id : ch \in channels},
                    !.iter_mappings = creator[r].webhook_mappings]]
    /\ UNCHANGED call
    /\ UNCHANGED <<tree, create_backups, category, channels, next_id, endpoints,
                   faults, scanner, creator, updater>>

\* Lines 258-268: the channel is created; the pacing sleep, then the record.
ChannelCreated(r) ==
    /\ pc[r] = "channel"
    /\ category
    /\ channels' = channels \cup {[id |-> next_id, name |-> ChannelName(Resource(r))]}
    /\ next_id' = next_id + 1
    /\ creator' = [creator EXCEPT
            ![r].channel = next_id,
            ![r].created_channels = Append(@, ChannelRecord(r, next_id)),
            ![r].widx = 1]
    /\ pc' = [pc EXCEPT ![r] = "hook"]
    /\ hist' = [hist EXCEPT ![r].last = "sleep", ![r].channels_created = @ + 1,
                            ![r].made = Append(@, [id |-> next_id, seen |-> hist[r].seen])]
    /\ UNCHANGED call
    /\ UNCHANGED <<tree, create_backups, category, endpoints, faults, scanner, updater>>

\* `break` in the place of `continue`: the loop ends.
Break(c) == [c EXCEPT !.idx = 1000]

\* What `continue` in the except clauses (lines 276-283) leaves: the next
\* resource, with what was recorded so far kept.
Continue(c) == [c EXCEPT !.idx = @ + 1]

\* Lines 276-283: create_text_channel raises (always so once the category is
\* gone); the resource is skipped.
ChannelFailed(r) ==
    /\ pc[r] = "channel"
    /\ faults < MaxFaults \/ ~category
    /\ faults' = IF category THEN faults + 1 ELSE faults
    /\ creator' = [creator EXCEPT ![r] = Continue(@)]
    /\ pc' = [pc EXCEPT ![r] = "create"]
    /\ hist' = [hist EXCEPT ![r].failed = @ \cup {Resource(r)},
                            ![r].failed_at = FnSet(@, Resource(r), Recorded(r))]
    /\ UNCHANGED call
    /\ UNCHANGED <<tree, create_backups, category, channels, next_id, endpoints,
                   scanner, updater>>

\* webhook_name of line 271: the resource, and the 1-based index when the
\* resource has several URLs (0 stands for no index).
WebhookName(r) ==
    <<Resource(r), IF Cardinality(OldWebhooks(r)) = 1 THEN 0 ELSE creator[r].widx>>

\* After the webhook at widx: the next one, or the next resource.
NextWebhook(c, n) ==
    IF c.widx < n THEN [c EXCEPT !.widx = @ + 1] ELSE [c EXCEPT !.idx = @ + 1]

\* Lines 270-274: create_webhook succeeds; the mapping, then the pacing sleep.
HookCreated(r) ==
    /\ pc[r] = "hook"
    /\ Len(endpoints) < MaxEndpoints
    /\ LET old_url == SortedUrls(OldWebhooks(r))[creator[r].widx]
           url == <<NewHead(Len(endpoints) + 1)>>
           after == NextWebhook(creator[r], Cardinality(OldWebhooks(r)))
       IN /\ endpoints' = Append(endpoints,
                [channel |-> creator[r].channel, name |-> WebhookName(r), url |-> url])
          /\ creator' = [creator EXCEPT ![r] =
                [after EXCEPT !.webhook_mappings = DictSet(@, old_url, url)]]
          /\ pc' = [pc EXCEPT ![r] = IF after.idx = creator[r].idx THEN "hook" ELSE "create"]
    /\ hist' = [hist EXCEPT ![r] = [Called(@) EXCEPT
                    !.last = "sleep",
                    !.endpoints_created = @ + 1,
                    !.hooks = Append(@, [resource |-> Resource(r),
                                         old_url |-> SortedUrls(OldWebhooks(r))[creator[r].widx],
                                         new_url |-> <<NewHead(Len(endpoints) + 1)>>,
                                         name |-> WebhookName(r)])]]
    /\ UNCHANGED call
    /\ UNCHANGED <<tree, create_backups, category, channels, next_id, faults,
                   scanner, updater>>

\* Lines 272 and 276-283: create_webhook raises; the resource is skipped.
HookFailed(r) ==
    /\ pc[r] = "hook"
    /\ faults < MaxFaults
    /\ faults' = faults + 1
    /\ creator' = [creator EXCEPT ![r] = Continue(@)]
    /\ pc' = [pc EXCEPT ![r] = "create"]
    /\ hist' = [hist EXCEPT ![r] = [Called(@) EXCEPT
                    !.failed = @ \cup {Resource(r)},
                    !.failed_at = FnSet(@, Resource(r), Recorded(r))]]
    /\ UNCHANGED call
    /\ UNCHANGED <<tree, create_backups, category, channels, next_id, endpoints,
                   scanner, updater>>

\* The platform: the category is deleted while a run is inside create_all;
\* its channels leave the category.
CategoryDeleted ==
    /\ category
    /\ \E r \in Runs : pc[r] \in {"create", "channel", "hook"}
    /\ category' = FALSE
    /\ channels' = {}
    /\ UNCHANGED call
    /\ UNCHANGED <<tree, create_backups, next_id, endpoints, faults, pc, scanner,
                   creator, updater, hist>>

\* ------------------------------------------------ FileUpdater.update_all

\* Lines 353-357: the backup takes the file's basename, or the first
\* stem_<counter><suffix> that is free; <<basename, 0>> is the basename itself.
RECURSIVE FreeName(_, _, _)
FreeName(dir, base, counter) ==
    IF \E b \in dir : b.name = <<base, counter>>
    THEN FreeName(dir, base, counter + 1)
    ELSE <<base, counter>>

BackupFile(dir, f, content, complete) ==
    [name |-> FreeName(dir, Paths[f][Len(Paths[f])], 0), source |-> f,
     content |-> content, complete |-> complete]

\* How a call of _update_file can go: every open, read and write can raise.
\*   read_error          the file cannot be opened or read
\*   backup_open_error   the backup file cannot be created
\*   backup_write_error  the backup file is created and the write to it raises
\*   open_error          the file cannot be opened for writing
\*   write_error         the file is truncated and the write to it raises
Outcomes(bytes, mappings, backing) ==
    {"ok", "read_error"}
    \cup (IF Rewrite(bytes, mappings).replacements > 0
          THEN {"open_error", "write_error"} ELSE {})
    \cup (IF Rewrite(bytes, mappings).replacements > 0 /\ backing
          THEN {"backup_open_error", "backup_write_error"} ELSE {})

\* Lines 352-361: the backup of the content read.
Backup(up, f, original, outcome) ==
    IF outcome = "backup_open_error" THEN up
    ELSE IF outcome = "backup_write_error"
    THEN [up EXCEPT !.backup_dir = @ \cup {BackupFile(@, f, << >>, FALSE)}]
    ELSE [up EXCEPT !.backup_dir = @ \cup {BackupFile(@, f, original, TRUE)},
                    !.stats.files_backed_up = @ + 1]

\* Lines 363-367: the file is overwritten and the counters are raised.
Overwrite(st, rw, outcome) ==
    IF outcome = "open_error" THEN st
    ELSE IF outcome = "write_error" THEN [st EXCEPT !.bytes = << >>]
    ELSE [bytes |-> rw.content,
          up |-> [st.up EXCEPT !.stats.files_updated = @ + 1,
                               !.stats.replacements = @ + rw.replacements]]

\* _update_file with the backup written whether or not backups are enabled.
update_file_backup_always(bytes, up, f, mappings, backing, outcome) ==
    LET rw == Rewrite(bytes, mappings)
        st == [bytes |-> bytes, up |-> up]
    IN IF outcome = "read_error" \/ rw.replacements = 0 THEN st
       ELSE IF outcome \in {"backup_open_error", "backup_write_error"}
       THEN [st EXCEPT !.up = Backup(up, f, Decode(bytes), outcome)]
       ELSE Overwrite([st EXCEPT !.up = Backup(up, f, Decode(bytes), outcome)], rw, outcome)

\* _update_file with the two writes in the other order: the file first, the
\* backup after it.
update_file_write_first(bytes, up, f, mappings, backing, outcome) ==
    LET rw == Rewrite(bytes, mappings)
        st == [bytes |-> bytes, up |-> up]
    IN IF outcome = "read_error" \/ rw.replacements = 0 THEN st
       ELSE IF outcome \in {"open_error", "write_error"} THEN Overwrite(st, rw, outcome)
       ELSE LET written == Overwrite(st, rw, "ok")
            IN [written EXCEPT !.up = IF backing
                                      THEN Backup(written.up, f, Decode(bytes), outcome)
                                      ELSE written.up]

\* _update_file (lines 337-370) on the file f holding `bytes`: the bytes of
\* the file and the FileUpdater after the call.
update_file(bytes, up, f, mappings, backing, outcome) ==
    LET rw == Rewrite(bytes, mappings)
        st == [bytes |-> bytes, up |-> up]
    IN IF outcome = "read_error" \/ rw.replacements = 0 THEN st
       ELSE IF backing /\ outcome \in {"backup_open_error", "backup_write_error"}
       THEN [st EXCEPT !.up = Backup(up, f, Decode(bytes), outcome)]
       ELSE Overwrite([st EXCEPT !.up = IF backing
                                        THEN Backup(up, f, Decode(bytes), outcome)
                                        ELSE up],
                      rw, outcome)

\* One iteration of the loop of update_all (lines 328-329); a set is
\* iterated in no particular order.
UpdateFile(r, f) ==
    /\ pc[r] = "update"
    /\ f \in updater[r].files_to_update
    /\ \E outcome \in Outcomes(tree[f], creator[r].webhook_mappings, create_backups) :
        /\ outcome = "ok" \/ faults < MaxFaults
        /\ faults' = IF outcome = "ok" THEN faults ELSE faults + 1
        /\ LET st == update_file(tree[f], updater[r], f, creator[r].webhook_mappings,
                                 create_backups, outcome)
           IN /\ tree' = [tree EXCEPT ![f] = st.bytes]
              /\ updater' = [updater EXCEPT ![r] =
                    [st.up EXCEPT !.files_to_update = @ \ {f}]]
        /\ hist' = [hist EXCEPT
                ![r].io_failed = IF outcome = "ok" THEN @ ELSE @ \cup {f},
                ![r].backup_failed =
                    IF outcome \in {"backup_open_error", "backup_write_error"}
                    THEN @ \cup {f} ELSE @,
                ![r].written =
                    IF outcome = "ok"
                       /\ Rewrite(tree[f], creator[r].webhook_mappings).replacements > 0
                    THEN @ \cup {f} ELSE @,
                ![r].update_calls[f] = @ + 1]
    /\ UNCHANGED call
    /\ UNCHANGED <<create_backups, category, channels, next_id, endpoints, pc,
                   scanner, creator>>

\* update_all is over; ResultsSaver.save writes the report and scan_webhooks
\* ends (lines 505-553).
Save(r) ==
    /\ pc[r] = "update"
    /\ updater[r].files_to_update = {}
    /\ pc' = [pc EXCEPT ![r] = "finished"]
    /\ hist' = [hist EXCEPT ![r].outcome = "done"]
    /\ UNCHANGED call
    /\ UNCHANGED <<tree, create_backups, category, channels, next_id, endpoints,
                   faults, scanner, creator, updater>>

\* ------------------------------------------------------ the specification

Next ==
    \/ \E r \in Runs :
        \/ Scan(r)
        \/ CreateReturn(r)
        \/ CategoryMissing(r)
        \/ Reuse(r)
        \/ RequestChannel(r)
        \/ ChannelCreated(r)
        \/ ChannelFailed(r)
        \/ HookCreated(r)
        \/ HookFailed(r)
        \/ Save(r)
        \/ \E f \in Files : UpdateFile(r, f)
    \/ CategoryDeleted

Spec == Init /\ [][Next]_vars

\* --------------------------------------------------- concurrent invocations

\* The trees of the runs that overlap: one URL, in a file of one resource.
InitConcurrent ==
    /\ Init
    /\ tree \in { << <<"s">>, <<"s">>, <<"U1">> >>, << <<"s">>, <<"U1">>, <<"s">> >> }
    /\ category

\* Nothing orders the invocations of the command: discord.py runs each in a
\* task of its own, and a task gives way to the others at every await.
NextConcurrent ==
    \/ \E r \in Runs :
        \/ ScanStage(r)
        \/ CreateReturn(r)
        \/ CategoryMissing(r)
        \/ Reuse(r)
        \/ RequestChannel(r)
        \/ ChannelCreated(r)
        \/ ChannelFailed(r)
        \/ HookCreated(r)
        \/ HookFailed(r)
        \/ Save(r)
        \/ \E f \in Files : UpdateFile(r, f)
    \/ CategoryDeleted

SpecConcurrent == InitConcurrent /\ [][NextConcurrent]_vars

\* --------------------------------------------- _update_file on its own

\* The URLs of the tree a mapping can have as keys.
OldUrls == {<<"U1">>, <<"U2">>, <<"U1", "x">>}

\* update_all has reached its loop with file 1 to update: any content, any
\* mapping.
InitUpdateFile ==
    \* Every content of at most MaxLen of the symbols a file can hold.
    /\ \E content \in UNION {[1..n -> {"s", "x", "B", "U1", "U2"}] : n \in 0..MaxLen} :
        tree = [f \in Files |-> IF f = 1 THEN content ELSE <<"s">>]
    /\ create_backups \in BOOLEAN
    /\ category = TRUE
    /\ channels = {}
    /\ next_id = 1
    /\ endpoints = << >>
    /\ faults = 0
    /\ pc = [r \in Runs |-> IF r = 1 THEN "update" ELSE "idle"]
    /\ scanner = [r \in Runs |-> EmptyScan]
    \* The mappings create_all can hand to update_all: one or two old URLs,
    \* each with the endpoint created for it.
    /\ \E m \in {<< <<a, <<NewHead(1)>> >> >> : a \in OldUrls}
                \cup {<< <<p[1], <<NewHead(1)>> >>, <<p[2], <<NewHead(2)>> >> >> :
                        p \in {q \in OldUrls \X OldUrls : q[1] # q[2]}} :
        creator = [r \in Runs |-> IF r = 1
                                  THEN [IdleCreator EXCEPT !.webhook_mappings = m,
                                                           !.result = "true"]
                                  ELSE IdleCreator]
    /\ updater = [r \in Runs |-> IF r = 1
                                 THEN [IdleUpdater EXCEPT !.files_to_update = {1},
                                                          !.backup_made = create_backups]
                                 ELSE IdleUpdater]
    /\ hist = [r \in Runs |-> IF r = 1 THEN [IdleHist EXCEPT !.pre = tree]
                              ELSE IdleHist]
    /\ call = NoCall

NextUpdateFile == UpdateFile(1, 1) \/ Save(1)

SpecUpdateFile == InitUpdateFile /\ [][NextUpdateFile]_vars

\* ----------------------------------------- _is_valid_webhook on its own

\* The state of the pipeline while a function is called on its own.
Idle ==
    /\ tree = [f \in Files |-> <<"s">>]
    /\ create_backups = FALSE
    /\ category = TRUE
    /\ channels = {}
    /\ next_id = 1
    /\ endpoints = << >>
    /\ faults = 0
    /\ pc = [r \in Runs |-> "idle"]
    /\ scanner = [r \in Runs |-> EmptyScan]
    /\ creator = [r \in Runs |-> IdleCreator]
    /\ updater = [r \in Runs |-> IdleUpdater]
    /\ hist = [r \in Runs |-> IdleHist]

\* Most chunks in a string handed to the validator.
MaxChunks == 4

RECURSIVE Flatten(_)
Flatten(seqs) == IF seqs = << >> THEN << >> ELSE Head(seqs) \o Flatten(Tail(seqs))

InitValidate ==
    /\ Idle
    \* The strings handed to the validator are made of: the start of a URL
    \* with either host, a host with no scheme before it, ids and tokens one
    \* character under and at the validator's thresholds, a token of dashes,
    \* 50 characters no token may hold, and a slash.
    /\ \E url \in
           LET chunks == { scheme \o domain_discord, scheme \o domain_discordapp,
                           domain_discord, <<Piece("7", 16)>>, <<Piece("7", 17)>>,
                           <<slash>>, <<Piece("a", 49)>>, <<Piece("a", 50)>>,
                           <<Piece("-", 50)>>, <<Piece("?", 50)>> }
           IN  {Flatten(cs) : cs \in UNION {[1..n -> chunks] : n \in 0..MaxChunks}} :
        call = [op |-> "is_valid_webhook", input |-> url, output |-> << >>]

\* One call of _is_valid_webhook.
Validate ==
    /\ call.op = "is_valid_webhook"
    /\ call.output = << >>
    /\ call' = [call EXCEPT !.output = <<is_valid_webhook(call.input)>>]
    /\ UNCHANGED <<tree, create_backups, category, channels, next_id, endpoints,
                   faults, pc, scanner, creator, updater, hist>>

SpecValidate == InitValidate /\ [][Validate]_vars

\* ------------------------------------- _extract_resource_name on its own

\* Most segments in a path handed to _extract_resource_name.
MaxSegments == 3

seg_qb == <<"[", "q", "b", "]">>
InitExtract ==
    /\ Idle
    \* The segments of the paths: 'resources', a resource, a file, a
    \* bracketed category, and segments that stripping empties or shortens.
    /\ \E path \in
           LET segments == { seg_resources, seg_shop, seg_config_lua, seg_qb,
                             <<"[", "]">>, <<" ">>,
                             <<"[", " ", "s", "h", "o", "p", " ", "]">> }
           IN  {FilePath(TRUE, ps) :
                    ps \in UNION {[1..n -> segments] : n \in 0..MaxSegments}}
               \cup {FilePath(FALSE, <<seg_shop, seg_config_lua>>)} :
        call = [op |-> "extract_resource_name", input |-> path, output |-> << >>]

\* One call of _extract_resource_name.
Extract ==
    /\ call.op = "extract_resource_name"
    /\ call.output = << >>
    /\ call' = [call EXCEPT !.output =
                   <<IF ~call.input.under THEN unknown
                     ELSE extract_resource_name(call.input.parts)>>]
    /\ UNCHANGED <<tree, create_backups, category, channels, next_id, endpoints,
                   faults, pc, scanner, creator, updater, hist>>

SpecExtract == InitExtract /\ [][Extract]_vars

\* ------------------------------------------------ _sanitize_name on its own

\* Most words in a name handed to _sanitize_name.
MaxWords == 3

InitSanitize ==
    /\ Idle
    \* The names handed to _sanitize_name are made of: the two words the
    \* function replaces, the characters it turns into hyphens, a character
    \* it removes, a letter in either case, a digit, and a run of letters
    \* one character short of the longest channel name; any of them in a
    \* row, bare or before the '-logs' that create_all appends (line 250).
    /\ \E name \in
           LET words == { word_discord, word_clyde, <<"_">>, <<" ">>, <<"-">>,
                          <<".">>, <<"a">>, <<"D">>, <<"1">>,
                          ([i \in 1..(MaxChannelName - 1) |-> "a"]) }
               bare == {Flatten(ws) : ws \in UNION {[1..n -> words] : n \in 0..MaxWords}}
           IN  bare \cup {n \o suffix_logs : n \in bare} :
        call = [op |-> "sanitize_name", input |-> name, output |-> << >>]

\* One call of _sanitize_name.
Sanitize ==
    /\ call.op = "sanitize_name"
    /\ call.output = << >>
    /\ call' = [call EXCEPT !.output = <<sanitize_name(call.input)>>]
    /\ UNCHANGED <<tree, create_backups, category, channels, next_id, endpoints,
                   faults, pc, scanner, creator, updater, hist>>

SpecSanitize == InitSanitize /\ [][Sanitize]_vars

\* ------------------------------------------ EnhancedScanner._get_all_files

\* config.file_extensions and config.skip_folders (lines 38-41).
file_extensions ==
    { <<".", "l", "u", "a">>,
      <<".", "j", "s">>,
      <<".", "t", "s">>,
      <<".", "j", "s", "x">>,
      <<".", "t", "s", "x">>,
      <<".", "j", "s", "o", "n">>,
      <<".", "c", "f", "g">>,
      <<".", "c", "o", "n", "f", "i", "g">>,
      <<".", "t", "x", "t">>,
      <<".", "m", "d">>,
      <<".", "e", "n", "v">>,
      <<".", "x", "m", "l">>,
      <<".", "y", "m", "l">>,
      <<".", "y", "a", "m", "l">>,
      <<".", "i", "n", "i">>,
      <<".", "t", "o", "m", "l">> }

skip_folders ==
    { <<"n", "o", "d", "e", "_", "m", "o", "d", "u", "l", "e", "s">>,
      <<".", "g", "i", "t">>,
      <<"_", "_", "p", "y", "c", "a", "c", "h", "e", "_", "_">>,
      <<"c", "a", "c", "h", "e">>,
      <<"l", "o", "g", "s">>,
      <<".", "i", "d", "e", "a">>,
      <<".", "v", "s", "c", "o", "d", "e">>,
      <<"d", "i", "s", "t">>,
      <<"b", "u", "i", "l", "d">>,
      <<"t", "a", "r", "g", "e", "t">>,
      <<"o", "b", "j">>,
      <<"b", "i", "n">> }

\* any(file.lower().endswith(ext) for ext in config.file_extensions)
HasExtension(file) ==
    LET lowered == Lower(file)
    IN \E ext \in file_extensions :
        /\ Len(ext) <= Len(lowered)
        /\ SubSeq(lowered, Len(lowered) - Len(ext) + 1, Len(lowered)) = ext

\* any(skip in d.lower() for skip in config.skip_folders)
IsSkipped(d) ==
    LET lowered == Lower(d)
    IN \E skip \in skip_folders :
        \E i \in 1..(Len(lowered) - Len(skip) + 1) :
            SubSeq(lowered, i, i + Len(skip) - 1) = skip

\* The followlinks argument of os.walk (line 123).
followlinks_on == TRUE

followlinks == FALSE

\* The names of the entries of the trees: directories, one of them with a
\* skip token in capitals and one with a skip token inside a longer word;
\* files with an extension of the list in either case, with the letters of an
\* extension and no dot, and with an extension that only begins like one of
\* the list; and a symbolic link to a directory.
dir_My_Cache == <<"M", "y", "_", "C", "a", "c", "h", "e">>
file_INIT_LUA == <<"I", "N", "I", "T", ".", "L", "U", "A">>
name_link == <<"l", "i", "n", "k">>

\* The directories a tree can have, as paths relative to base_path, and the
\* entries a directory can hold beside directories.
Directories ==
    { << >>, <<seg_shop>>, <<dir_My_Cache>>, <<dir_My_Cache, seg_shop>>,
      <<seg_shop, <<"c", "a", "b", "i", "n">> >>, <<seg_shop, seg_bank>> }

LeafNames ==
    { seg_config_lua, file_INIT_LUA, <<"l", "u", "a">>,
      <<"a", ".", "l", "u", "a", "c">>, name_link }

\* Most entries (files and links) in a tree.
MaxEntries == 3

\* os.path.islink: the path is a symbolic link (here, always to a directory).
IsLink(path) == path # << >> /\ path[Len(path)] = name_link

\* What os.scandir lists in a directory: the paths of its entries.
Entries(t, dir) ==
    IF IsLink(dir) THEN {dir \o p : p \in {<<seg_config_lua>>}}
    ELSE {SubSeq(p, 1, Len(dir) + 1) :
            p \in {q \in t : Len(dir) < Len(q) /\ SubSeq(q, 1, Len(dir)) = dir}}

\* The entries os.walk puts in dirs (directories and links to directories)
\* and in files (the others).
WalkDirs(t, dir) ==
    {e \in Entries(t, dir) : IsLink(e) \/ (~IsLink(dir) /\ e \notin t)}

\* The orders a directory listing can come in.
Orders(S) ==
    {s \in [1..Cardinality(S) -> S] : \A i, j \in 1..Cardinality(S) : s[i] = s[j] => i = j}

InitWalk ==
    /\ Idle
    \* A tree is the set of the paths of its files and links; its
    \* directories are the ones that lead to them.
    /\ \E t \in
           LET leaves == {d \o <<n>> : d \in Directories, n \in LeafNames}
           IN  {Range(es) : es \in UNION {[1..n -> leaves] : n \in 0..MaxEntries}} :
        call = [op |-> "get_all_files", input |-> t, output |-> << >>,
                stack |-> << << >> >>, walked |-> {}]

\* One turn of the loop of _get_all_files (lines 123-128): os.walk lists the
\* next directory, line 124 prunes dirs, lines 126-128 yield the files with
\* a listed extension, and os.walk goes on into the directories left in dirs
\* that it may enter.
Walk ==
    /\ call.op = "get_all_files"
    /\ call.stack # << >>
    /\ LET root == Head(call.stack)
           dirs == {d \in WalkDirs(call.input, root) : ~IsSkipped(d[Len(d)])}
           files == {f \in Entries(call.input, root) \ WalkDirs(call.input, root) :
                       HasExtension(f[Len(f)])}
           entered == {d \in dirs : followlinks \/ ~IsLink(d)}
       IN \E fs \in Orders(files), ds \in Orders(entered) :
            call' = [call EXCEPT !.output = @ \o fs,
                                 !.walked = @ \cup {root},
                                 !.stack = ds \o Tail(@)]
    /\ UNCHANGED <<tree, create_backups, category, channels, next_id, endpoints,
                   faults, pc, scanner, creator, updater, hist>>

SpecWalk == InitWalk /\ [][Walk]_vars

\* ------------------------------------------ EnhancedScanner.scan, by file

\* The file the loop of scan takes after a file that could not be read: the
\* error is swallowed in _scan_file (lines 161-162) and the loop goes on.
\* The loop left at the first file that cannot be read.
NextFileNone(f) == Cardinality(Files) + 1

NextFile(f) == f + 1

InitScan ==
    /\ tree \in {t \in [Files -> UNION {FileContents[f] : f \in Files}] :
                    \A f \in Files : t[f] \in FileContents[f]}
    /\ create_backups = FALSE
    /\ category = TRUE
    /\ channels = {}
    /\ next_id = 1
    /\ endpoints = << >>
    /\ faults = 0
    /\ pc = [r \in Runs |-> "idle"]
    /\ scanner = [r \in Runs |-> EmptyScan]
    /\ creator = [r \in Runs |-> IdleCreator]
    /\ updater = [r \in Runs |-> IdleUpdater]
    /\ hist = [r \in Runs |-> IF r = 1 THEN [IdleHist EXCEPT !.pre = tree] ELSE IdleHist]
    /\ call = [op |-> "scan", input |-> 1, output |-> << >>]

\* One turn of the loop of scan (lines 103-104): _scan_file on the next file,
\* which can be read or not.
ScanFile ==
    /\ call.op = "scan"
    /\ call.input \in Files
    /\ LET f == call.input
       IN \E readable \in BOOLEAN :
            /\ scanner' = [scanner EXCEPT ![1] =
                    IF readable THEN scan_file(@, f, Paths[f], tree[f]) ELSE @]
            /\ hist' = [hist EXCEPT ![1].unread = IF readable THEN @ ELSE @ \cup {f}]
            /\ call' = [call EXCEPT !.input = IF readable THEN f + 1 ELSE NextFile(f)]
    /\ UNCHANGED <<tree, create_backups, category, channels, next_id, endpoints,
                   faults, pc, creator, updater>>

\* The loop is over: scan sets files_scanned and returns webhooks_by_resource
\* (lines 109-119).
ScanReturn ==
    /\ call.op = "scan"
    /\ call.input \notin Files
    /\ call.output = << >>
    /\ scanner' = [scanner EXCEPT ![1].files_scanned = Cardinality(Files)]
    /\ call' = [call EXCEPT !.output = <<scanner[1].webhooks_by_resource>>]
    /\ UNCHANGED <<tree, create_backups, category, channels, next_id, endpoints,
                   faults, pc, creator, updater, hist>>

NextScan == ScanFile \/ ScanReturn

\* scan awaits nothing but its progress callback: once called it runs on.
SpecScan == InitScan /\ [][NextScan]_vars /\ WF_vars(NextScan)

\* ------------------------------------------------- create_all on its own

\* Names of resource directories: names that differ in case, in an
\* underscore, a blank or a hyphen at the same place, or in punctuation, and
\* a name unlike the others.
ResourceNames ==
    { seg_shop, <<"S", "h", "o", "p">>, <<"s", "h", ".", "o", "p">>,
      <<"s", "h", "_", "o", "p">>, <<"s", "h", " ", "o", "p">>,
      <<"s", "h", "-", "o", "p">>, seg_bank }

\* scan has returned and scan_webhooks calls create_all (line 494): the scan
\* found a URL in file 1, under one resource, and a URL in file 2, under
\* another.
InitCreate ==
    /\ \E u \in {<<"U1">>, <<"U2">>} :
        /\ tree = [f \in Files |-> IF f = 1 THEN <<"U1">> ELSE IF f = 2 THEN u ELSE <<"s">>]
        /\ \E a, b \in ResourceNames :
            /\ a # b
            /\ scanner = [r \in Runs |->
                    IF r = 1
                    THEN [AddWebhook(AddWebhook(EmptyScan, <<"U1">>, 1, a), u, 2, b)
                            EXCEPT !.files_with_webhooks = 2,
                                   !.files_scanned = Cardinality(Files)]
                    ELSE EmptyScan]
    /\ create_backups = FALSE
    /\ category = TRUE
    /\ channels = {}
    /\ next_id = 1
    /\ endpoints = << >>
    /\ faults = 0
    /\ pc = [r \in Runs |-> IF r = 1 THEN "create" ELSE "idle"]
    /\ creator = [r \in Runs |-> IdleCreator]
    /\ updater = [r \in Runs |-> IdleUpdater]
    /\ hist = [r \in Runs |-> IF r = 1 THEN [IdleHist EXCEPT !.pre = tree] ELSE IdleHist]
    /\ call = NoCall

NextCreate ==
    \/ CategoryMissing(1)
    \/ Reuse(1)
    \/ RequestChannel(1)
    \/ ChannelCreated(1)
    \/ ChannelFailed(1)
    \/ HookCreated(1)
    \/ HookFailed(1)
    \/ CreateReturn(1)
    \/ CategoryDeleted

SpecCreate == InitCreate /\ [][NextCreate]_vars

\* ------------------------------------------------------------ properties

\* The run that started last.
Latest(r) == pc[r] # "idle" /\ \A q \in Runs : q > r => pc[q] = "idle"

\* C1.  _update_file on a file that holds a mapped old URL OLD n >= 1 times,
\* where OLD overlaps no other mapped URL (as in the mapping OLD -> NEW alone):
\* once the file is written it holds NEW exactly n times and OLD not at all.
C1_RewriteCounts ==
    LET m == creator[1].webhook_mappings
        before == Decode(hist[1].pre[1])
    IN 1 \in hist[1].written =>
        \A i \in 1..Len(m) :
            (/\ Count(before, m[i][1]) >= 1
             /\ \A j \in 1..Len(m) :
                    j # i => Count(m[i][1], m[j][1]) = 0 /\ Count(m[j][1], m[i][1]) = 0)
            => /\ Count(tree[1], m[i][2]) = Count(before, m[i][1])
               /\ Count(tree[1], m[i][1]) = 0

\* The spec's case: OLD three times, the mapping OLD -> NEW alone.
C1_Witness ==
    /\ 1 \in hist[1].written
    /\ hist[1].pre[1] = <<"U1", "U1", "U1">>
    /\ creator[1].webhook_mappings = << << <<"U1">>, <<"N1">> >> >>
    /\ tree[1] = <<"N1", "N1", "N1">>

\* C2.  With backups enabled, a file differs from what it held when the run
\* started only if the run's backup directory already holds a complete backup
\* of what was read from it, and a file whose backup could not be written
\* holds what it held when the run started.
C2_BackupBeforeOverwrite ==
    create_backups =>
        \A r \in Runs : \A f \in Files :
            Latest(r) =>
                /\ tree[f] # hist[r].pre[f] =>
                    \E b \in updater[r].backup_dir :
                        b.source = f /\ b.complete /\ b.content = Decode(hist[r].pre[f])
                /\ f \in hist[r].backup_failed => tree[f] = hist[r].pre[f]

\* One file is rewritten and backed up, the backup of another has failed.
C2_Witness ==
    /\ create_backups
    /\ pc[1] # "idle"
    /\ \E f \in Files :
        /\ tree[f] # hist[1].pre[f]
        /\ \E b \in updater[1].backup_dir :
            b.source = f /\ b.complete /\ b.content = Decode(hist[1].pre[f])
    /\ \E f \in Files : f \in hist[1].backup_failed /\ tree[f] = hist[1].pre[f]

\* C3.  Every backup a run wrote is byte-identical to what its file held
\* before the run rewrote it.
C3_BackupByteIdentical ==
    \A r \in Runs : \A b \in updater[r].backup_dir :
        b.complete => b.content = hist[r].pre[b.source]

\* The files a run's scan could not read are those the run before it could
\* not read: nothing outside the pipeline touched the tree between the runs.
SameReadable == hist[2].unread = hist[1].unread

\* C4.  A channel is asked for only when the category holds no channel of
\* the sanitized name, so the category never holds two channels of one name;
\* and a second run after a first run that completed without remote failure,
\* on a tree nothing else touched, creates no channel.
C4_IdempotentChannels ==
    /\ \A r \in Runs : pc[r] = "channel" /\ category => ~ExistingChannel(r)
    /\ \A c1 \in channels : \A c2 \in channels : c1.name = c2.name => c1.id = c2.id
    /\ (/\ hist[1].outcome \in {"done", "no_webhooks"}
        /\ hist[1].failed = {}
        /\ pc[2] # "idle"
        /\ SameReadable) => hist[2].channels_created = 0

\* The second run has reused a channel the first run created.
C4_Witness ==
    /\ (hist[1].outcome \in {"done", "no_webhooks"} /\ hist[1].failed = {})
    /\ hist[1].channels_created >= 1
    /\ SameReadable
    /\ Len(creator[2].created_channels) >= 1
    /\ hist[2].channels_created = 0
    /\ \E ch \in channels : ch.id = creator[2].created_channels[1].id

\* C5.  Two runs in sequence with no failure of any kind: the keys of the
\* second run's webhook_mappings are the keys of the first run's.
C5_SameKeys ==
    hist[1].outcome = "done" /\ hist[2].outcome = "done" /\ faults = 0
    => DictKeys(creator[2].webhook_mappings) = DictKeys(creator[1].webhook_mappings)

\* C6.  After a run that ended with every file it had to update written, the
\* next scan of the tree (nothing else having touched it) finds, for a resource
\* the run provisioned, none of the URLs the run had found for it: no
\* occurrence of such a URL is attributed to the resource, and no file of the
\* resource holds one.
C6_NoOldUrlLeft ==
    hist[1].outcome = "done" /\ hist[1].io_failed = {} /\ pc[2] # "idle" /\ SameReadable
    => \A res \in DOMAIN scanner[1].webhooks_by_resource :
        res \in hist[1].attempted \ hist[1].failed =>
            \A u \in scanner[1].webhooks_by_resource[res] :
                /\ res \in DOMAIN scanner[2].webhooks_by_resource
                    => u \notin scanner[2].webhooks_by_resource[res]
                /\ \A f \in {g \in Files : extract_resource_name(Paths[g]) = res}
                            \ hist[2].unread :
                    u \notin {c \in Range(Candidates(Decode(hist[2].pre[f]))) : TRUE}

\* The first run rewrote a file of a resource it provisioned, and the second
\* run's scan found that resource again, under its new URLs.
C6_Witness ==
    /\ hist[1].outcome = "done" /\ hist[1].io_failed = {} /\ hist[1].written # {}
    /\ pc[2] # "idle" /\ SameReadable
    /\ \E res \in DOMAIN scanner[1].webhooks_by_resource :
        /\ res \in hist[1].attempted \ hist[1].failed
        /\ Cardinality(scanner[1].webhooks_by_resource[res]) = 2
        /\ res \in DOMAIN scanner[2].webhooks_by_resource
        /\ ({f \in Files : extract_resource_name(Paths[f]) = res}) \subseteq hist[1].written

\* C7.  Whenever create_all has returned False, the run has created
\* no channel and no endpoint, webhook_mappings and created_channels are
\* empty, and neither update_all nor save has run: no file is modified.
C7_NoPartialProvisioning ==
    \A r \in Runs : creator[r].result = "false" =>
        /\ hist[r].channels_created = 0
        /\ hist[r].endpoints_created = 0
        /\ creator[r].webhook_mappings = << >>
        /\ creator[r].created_channels = << >>
        /\ updater[r] = IdleUpdater
        /\ Latest(r) => tree = hist[r].pre

\* The position of a resource in the order create_all visits them.
Position(r, res) == CHOOSE i \in 1..Len(Items(r)) : Items(r)[i] = res

\* C8.  A remote call that raises does not stop create_all: the loop goes on
\* to the resource after the failed one, and nothing but a missing category
\* ends it early.  When the loop ends, create_all returns True with every
\* resource attempted and every URL of the resources that did not fail mapped,
\* and the rewrite stage runs on the files those mappings name: when it is over
\* without an I/O error, no file it had to update holds a mapped URL.
C8_RemoteFailureNotFatal ==
    \A r \in Runs :
        /\ \A res \in hist[r].failed :
            pc[r] \in {"create", "channel", "hook"} => creator[r].idx > Position(r, res)
        /\ creator[r].result = "false" => hist[r].aborted_at >= 1
        /\ hist[r].failed # {} /\ pc[r] = "finished" =>
                hist[r].outcome \in {"done", "aborted"}
        /\ creator[r].result = "true" =>
            /\ hist[r].attempted = DOMAIN scanner[r].webhooks_by_resource
            /\ \A res \in hist[r].attempted \ hist[r].failed :
                   \A u \in scanner[r].webhooks_by_resource[res] :
                       DictHas(creator[r].webhook_mappings, u)
            /\ pc[r] \in {"update", "finished"}
            /\ updater[r].files_to_update \subseteq
                    FilesToUpdate(creator[r].webhook_mappings, scanner[r].file_occurrences)
        /\ hist[r].outcome = "done" /\ hist[r].io_failed = {} /\ Latest(r) =>
            \A f \in FilesToUpdate(creator[r].webhook_mappings, scanner[r].file_occurrences) :
                \A i \in 1..Len(creator[r].webhook_mappings) :
                    Count(Decode(tree[f]), creator[r].webhook_mappings[i][1]) = 0

\* The first resource failed, the second was provisioned, and the rewrite
\* stage wrote a file with the second's mapping.
C8_Witness ==
    /\ hist[1].failed # {}
    /\ hist[1].attempted \ hist[1].failed # {}
    /\ creator[1].result = "true"
    /\ hist[1].outcome = "done"
    /\ hist[1].written # {}
    /\ \E res \in hist[1].failed : \E ok \in hist[1].attempted \ hist[1].failed :
            Position(1, res) < Position(1, ok)

\* C9.  When the iteration of a resource raised, the run had recorded nothing
\* for it: no record in created_channels, and no entry of webhook_mappings
\* added during the iteration.
C9_NothingRecorded ==
    \A r \in Runs : \A res \in DOMAIN hist[r].failed_at :
        /\ ~hist[r].failed_at[res].channel_record
        /\ hist[r].failed_at[res].added = {}

\* C10.  Between any two consecutive remote creation calls of a run, whether
\* they succeeded or raised, there was a pacing sleep.
C10_Paced == \A r \in Runs : ~hist[r].unpaced

\* C11.  _is_valid_webhook returns a boolean for every string, and True
\* exactly when the string has 50 characters or more, holds an accepted host
\* followed by /api/webhooks/, splits on '/' into 7 segments or more, its
\* second-to-last segment is 17 digits or more and nothing else, and its last
\* segment is 50 characters or more, each alphanumeric, '-' or '_'.
C11_ValidatorIff ==
    call.op = "is_valid_webhook" /\ call.output # << >> =>
        LET url == call.input
            parts == Split(url)
            n == Len(parts)
        IN /\ call.output[1] \in BOOLEAN
           /\ call.output[1] <=>
                /\ StrLen(url) >= 50
                /\ Within(domain_discord, url) \/ Within(domain_discordapp, url)
                /\ n >= 7
                /\ isdigit(parts[n - 1]) /\ StrLen(parts[n - 1]) >= 17
                /\ StrLen(parts[n]) >= 50 /\ IsTokenText(parts[n])

\* A URL with an id of exactly 17 digits and a token of exactly 50 characters
\* was accepted.
C11_Witness ==
    /\ call.op = "is_valid_webhook"
    /\ call.output = <<TRUE>>
    /\ call.input = scheme \o domain_discord \o <<Piece("7", 17), slash, Piece("a", 50)>>

\* What the patterns find in each content a file of the model can have: an
\* initial content, as it is or as a rewrite leaves it (decoded, its URL
\* replaced by an endpoint URL), or nothing.
Found ==
    LET heads == {OldHeads[i] : i \in 1..Len(OldHeads)} \cup NewHeads
        initial == UNION {FileContents[f] : f \in Files}
        stored == initial \cup {Decode(c) : c \in initial}
        storable == {<< >>} \cup {[i \in 1..Len(c) |-> IF IsHead(c[i]) THEN h ELSE c[i]] :
                                     c \in stored, h \in heads}
    IN  [c \in storable |-> Candidates(Decode(c))]

\* The candidates of a file as the run's scan read it, and those of them the
\* validator accepts.
CandidatesOf(r, f) == Found[hist[r].pre[f]]

Accepted ==
    LET bodies == {<<b>> : b \in {OldHeads[i] : i \in 1..Len(OldHeads)}
                                 \cup NewHeads \cup {"V"}}
        matchable == bodies \cup {b \o <<"x">> : b \in bodies}
                            \cup {b \o <<"k">> : b \in bodies}
    IN  [u \in matchable |-> is_valid_webhook(UrlText(u))]

RECURSIVE Sum(_, _)
Sum(counts, fs) ==
    IF fs = {} THEN 0
    ELSE LET f == CHOOSE g \in fs : TRUE IN counts[f] + Sum(counts, fs \ {f})

\* C12.  Every URL in webhooks_by_resource, every key of file_occurrences and
\* every key of webhook_mappings is accepted by the validator, whichever
\* pattern found it; and a candidate the validator refuses changes nothing:
\* the counters count the accepted candidates only, and a file or a resource
\* with refused candidates only is in no index.
C12_OnlyValidStored ==
    \A r \in Runs : pc[r] # "idle" =>
        LET sc == scanner[r]
            counts == [f \in Files |-> IF f \in hist[r].unread THEN 0
                                       ELSE LET cands == CandidatesOf(r, f)
                                            IN Cardinality({i \in 1..Len(cands) :
                                                               Accepted[cands[i]]})]
            with_webhooks == {f \in Files : counts[f] > 0}
        IN /\ \A res \in DOMAIN sc.webhooks_by_resource :
                \A u \in sc.webhooks_by_resource[res] : Accepted[u]
           /\ \A u \in DOMAIN sc.file_occurrences : Accepted[u]
           /\ \A u \in DictKeys(creator[r].webhook_mappings) : Accepted[u]
           /\ sc.webhooks_found = Sum(counts, Files)
           /\ sc.files_with_webhooks = Cardinality(with_webhooks)
           /\ \A u \in DOMAIN sc.file_occurrences :
                \A i \in 1..Len(sc.file_occurrences[u]) :
                    sc.file_occurrences[u][i][1] \in with_webhooks
           /\ sc.resources_found = DOMAIN sc.webhooks_by_resource
           /\ DOMAIN sc.webhooks_by_resource =
                {extract_resource_name(Paths[f]) : f \in with_webhooks}

\* A scan met candidates the validator refused, found by the direct pattern
\* and by value patterns, in the only file of a resource, and accepted
\* candidates in another file.
C12_Witness ==
    /\ pc[1] # "idle"
    /\ 3 \notin hist[1].unread
    /\ Len(CandidatesOf(1, 3)) = 3
    /\ \A i \in 1..Len(CandidatesOf(1, 3)) : ~Accepted[CandidatesOf(1, 3)[i]]
    /\ scanner[1].webhooks_found >= 3
    /\ seg_bank \notin DOMAIN scanner[1].webhooks_by_resource

\* A segment with the brackets around it, then the blanks around it, removed.
Bare(seg) == Strip(Strip(seg, {"[", "]"}), {" "})

\* C13.  For a path of one segment or more under the scan root,
\* _extract_resource_name returns one name: the segment after a 'resources'
\* segment when there is one; otherwise, when the first segment is bracketed,
\* the second segment, or the first when there is no second; otherwise the
\* first segment; with brackets and blanks around it stripped ('unknown' when
\* nothing is left).  resources/shop/config.lua, [qb]/shop/config.lua and
\* shop/config.lua all give 'shop'.
C13_Precedence ==
    /\ call.op = "extract_resource_name" /\ call.output # << >>
       /\ call.input.under /\ call.input.parts # << >> =>
        LET parts == call.input.parts
            n == Len(parts)
            name == call.output[1]
            followers == {parts[i + 1] : i \in {j \in 1..(n - 1) : parts[j] = seg_resources}}
            Is(seg) == name = IF Bare(seg) # << >> THEN Bare(seg) ELSE unknown
        IN /\ Len(call.output) = 1
           /\ IF followers # {} THEN \E seg \in followers : Is(seg)
              ELSE IF parts[1] # << >> /\ parts[1][1] = "[" /\ parts[1][Len(parts[1])] = "]"
                   THEN (IF n >= 2 THEN Is(parts[2]) ELSE Is(parts[1]))
              ELSE Is(parts[1])
    /\ extract_resource_name(<<seg_resources, seg_shop, seg_config_lua>>) = seg_shop
    /\ extract_resource_name(<<seg_qb, seg_shop, seg_config_lua>>) = seg_shop
    /\ extract_resource_name(<<seg_shop, seg_config_lua>>) = seg_shop

\* The 'resources' rule has won over the bracket rule.
C13_Witness ==
    /\ call.op = "extract_resource_name"
    /\ call.input = FilePath(TRUE, <<seg_qb, seg_resources, seg_shop>>)
    /\ call.output = <<seg_shop>>

\* C14.  _extract_resource_name never returns the empty string: it returns
\* 'unknown' when the segment it chose is empty once stripped, when the path
\* has no segment, and when the path is not under the scan root.
C14_NeverEmpty ==
    call.op = "extract_resource_name" /\ call.output # << >> =>
        LET path == call.input
            name == call.output[1]
        IN /\ name # << >>
           /\ ~path.under => name = unknown
           /\ path.under /\ path.parts = << >> => name = unknown
           /\ path.under /\ path.parts # << >> /\ Bare(ChosenSegment(path.parts)) = << >>
                => name = unknown

\* The chosen segment was a pair of brackets: nothing was left
\* of it, and 'unknown' was returned.
C14_Witness ==
    /\ call.op = "extract_resource_name"
    /\ call.input = FilePath(TRUE, <<seg_qb, <<"[", "]">> >>)
    /\ call.output = <<unknown>>

\* C15.  When two files of one resource each hold the same valid URL once, in
\* any form the scanner recognises, and no other file holds it, then after
\* the scan the resource's set has the URL and file_occurrences[URL] has
\* exactly two entries, one for each of the two files.
C15_Aggregation ==
    \A r \in Runs : pc[r] # "idle" =>
        \A f \in Files \ hist[r].unread : \A g \in Files \ (hist[r].unread \cup {f}) :
            \A u \in {v \in DOMAIN Accepted : Accepted[v]} :
                /\ extract_resource_name(Paths[f]) = extract_resource_name(Paths[g])
                /\ Decode(hist[r].pre[f]) \in {u, <<"K">> \o u \o <<"Q">>}
                /\ Decode(hist[r].pre[g]) \in {u, <<"K">> \o u \o <<"Q">>}
                /\ \A h \in Files \ {f, g} : u \notin Range(CandidatesOf(r, h))
                => LET res == extract_resource_name(Paths[f])
                       occ == scanner[r].file_occurrences[u]
                   IN /\ u \in scanner[r].webhooks_by_resource[res]
                      /\ Len(occ) = 2
                      /\ {occ[1][1], occ[2][1]} = {f, g}

\* C16.  webhook_mappings is one-to-one in every state: an old URL has one
\* new URL, two old URLs never have the same new URL, and every new URL is
\* the URL of an endpoint the platform created.
C16_OneToOne ==
    \A r \in Runs :
        LET m == creator[r].webhook_mappings
        IN /\ \A i \in 1..Len(m) : \A j \in 1..Len(m) :
                i # j => m[i][1] # m[j][1] /\ m[i][2] # m[j][2]
           /\ \A i \in 1..Len(m) : \E e \in 1..Len(endpoints) : endpoints[e].url = m[i][2]
           /\ \A e1 \in 1..Len(endpoints) : \A e2 \in 1..Len(endpoints) :
                e1 # e2 => endpoints[e1].url # endpoints[e2].url

\* A URL found in two resources got a second endpoint, which replaced the
\* first in the mapping, next to the mapping of another URL.
C16_Witness ==
    /\ Len(creator[1].webhook_mappings) = 2
    /\ hist[1].endpoints_created = 3
    /\ creator[1].result = "true"

\* C17.  create_all visits the resources in ascending order of name (each
\* before the next) and, in a resource, creates the endpoints in ascending
\* order of the URLs, one per URL; an endpoint is named after the resource
\* alone when the resource has one URL, and after the resource and the URL's
\* 1-based position otherwise.
\* When create_all returns True, every URL of a resource that did not fail
\* has had its endpoint created.
C17_OrderAndNames ==
    \A r \in Runs :
        LET visited == hist[r].visited
            hooks == hist[r].hooks
        IN /\ \A i \in 1..(Len(visited) - 1) : NameLess(visited[i], visited[i + 1])
           /\ \A i \in 1..(Len(hooks) - 1) :
                \/ /\ hooks[i].resource = hooks[i + 1].resource
                   /\ UrlLess(hooks[i].old_url, hooks[i + 1].old_url)
                \/ /\ hooks[i].resource # hooks[i + 1].resource
                   /\ NameLess(hooks[i].resource, hooks[i + 1].resource)
           /\ \A i \in 1..Len(hooks) :
                LET res == hooks[i].resource
                    urls == scanner[r].webhooks_by_resource[res]
                IN /\ hooks[i].old_url \in urls
                   /\ hooks[i].name =
                        IF Cardinality(urls) = 1 THEN <<res, 0>>
                        ELSE <<res, 1 + Cardinality({v \in scanner[r].webhooks_by_resource[res] :
                                                         UrlLess(v, hooks[i].old_url)})>>
           /\ creator[r].result = "true" =>
                \A res \in hist[r].attempted \ hist[r].failed :
                    \A u \in scanner[r].webhooks_by_resource[res] :
                        \E i \in 1..Len(hooks) :
                            hooks[i].resource = res /\ hooks[i].old_url = u

\* Two resources were provisioned, the second with two URLs.
C17_Witness ==
    /\ creator[1].result = "true"
    /\ hist[1].failed = {}
    /\ Len(hist[1].visited) = 2
    /\ Len(hist[1].hooks) = 3
    /\ hist[1].hooks[1].name = <<seg_bank, 0>>
    /\ hist[1].hooks[3].name = <<seg_shop, 2>>

\* The files that file_occurrences lists for a key of webhook_mappings.
Listed(r) ==
    {f \in Files : \E u \in DictKeys(creator[r].webhook_mappings) :
        /\ u \in DOMAIN scanner[r].file_occurrences
        /\ f \in {occ[1] : occ \in Range(scanner[r].file_occurrences[u])}}

\* The URLs the run's scan found in a file.
UrlsIn(r, f) ==
    {u \in DOMAIN scanner[r].file_occurrences :
        f \in {occ[1] : occ \in Range(scanner[r].file_occurrences[u])}}

\* C18.  update_all calls _update_file only on files that file_occurrences
\* lists for a key of webhook_mappings, and at most once on each; every other
\* file holds after update_all what it held before, and so does every file
\* none of whose URLs has a mapping.
C18_Frame ==
    \A r \in Runs :
        LET listed == Listed(r)
            calls == hist[r].update_calls
        IN /\ \A f \in Files : calls[f] <= 1 /\ (calls[f] = 1 => f \in listed)
           /\ updater[r].files_to_update \subseteq listed
           /\ Latest(r) =>
                \A f \in Files :
                    (\/ f \notin listed
                     \/ calls[f] = 0
                     \/ UrlsIn(r, f) \cap DictKeys(creator[r].webhook_mappings) = {})
                    => tree[f] = hist[r].pre[f]

\* A run rewrote one file and left alone a file with a URL of a resource
\* whose provisioning failed, and a file with no URL.
C18_Witness ==
    /\ hist[1].outcome = "done"
    /\ hist[1].written # {}
    /\ \E f \in Files :
        /\ UrlsIn(1, f) # {}
        /\ f \notin Listed(1)
        /\ tree[f] = hist[1].pre[f]
    /\ \E f \in Files : UrlsIn(1, f) = {} /\ hist[1].update_calls[f] = 0

\* C19.  A failure of _update_file on a file (reading it, writing its backup
\* or writing its new content) is swallowed: the file holds after the call
\* what it held before, files_updated and replacements are not raised for it,
\* and update_all goes on to every file that is left.
C19_FailureSwallowed ==
    \A r \in Runs :
        /\ Latest(r) => \A f \in hist[r].io_failed : tree[f] = hist[r].pre[f]
        /\ updater[r].stats.files_updated = Cardinality(hist[r].written)
        /\ hist[r].outcome = "done" => \A f \in Listed(r) : hist[r].update_calls[f] = 1

\* C20.  The backups of a run never overwrite each other: no two files of
\* the backup directory have the same name, a file whose basename is taken
\* gets a numeric suffix, every backed-up file has one backup, and every
\* backup holds the original content of its own source file.
C20_BackupsDistinct ==
    \A r \in Runs :
        LET dir == updater[r].backup_dir
        IN /\ \A b1 \in dir : \A b2 \in dir :
                b1.name = b2.name \/ b1.source = b2.source => b1 = b2
           /\ \A b \in dir : b.name[1] = Paths[b.source][Len(Paths[b.source])]
           /\ \A b \in dir : b.name[2] > 0 =>
                \E first \in dir : first.name = <<b.name[1], 0>> /\ first.source # b.source
           /\ \A b \in dir : b.complete => b.content = hist[r].pre[b.source]

\* The word occurs in the name.
Contains(name, word) ==
    \E i \in 1..(Len(name) - Len(word) + 1) : SubSeq(name, i, i + Len(word) - 1) = word

\* C21.  The channel name _sanitize_name returns for resource + '-logs' holds
\* neither 'discord' nor 'clyde', whatever surrounds the word in the resource
\* name.
C21_NoReservedWord ==
    (/\ call.op = "sanitize_name"
     /\ call.output # << >>
     \* The name is a resource name followed by '-logs'.
     /\ Len(call.input) >= Len(suffix_logs)
     /\ SubSeq(call.input, Len(call.input) - Len(suffix_logs) + 1, Len(call.input))
            = suffix_logs) =>
        /\ ~Contains(call.output[1], word_discord)
        /\ ~Contains(call.output[1], word_clyde)

\* C22.  Whatever the input, the name _sanitize_name returns is not empty,
\* has at most 100 characters, all of them in [a-z0-9-], has no two hyphens
\* in a row, and neither begins nor ends with a hyphen.
C22_Slug ==
    call.op = "sanitize_name" /\ call.output # << >> =>
        LET name == call.output[1]
        IN /\ name # << >>
           /\ Len(name) <= MaxChannelName
           /\ \A i \in 1..Len(name) : IsLowerCh(name[i]) \/ IsDigit(name[i]) \/ name[i] = "-"
           /\ \A i \in 1..(Len(name) - 1) : ~(name[i] = "-" /\ name[i + 1] = "-")
           /\ name[1] # "-"
           /\ name[Len(name)] # "-"

\* The names of the entries of the trees; those among them with a skip token
\* inside, and those that end with a listed extension, in any case.
EntryNames ==
    LeafNames \cup UNION {Range(d) : d \in Directories} \cup {seg_config_lua}

NamesWithToken ==
    {n \in EntryNames : \E skip \in skip_folders : Contains(Lower(n), Lower(skip))}

NamesWithExtension ==
    {n \in EntryNames :
        \E ext \in file_extensions :
            /\ Len(n) >= Len(ext)
            /\ \A k \in 1..Len(ext) : Lower(n)[Len(n) - Len(ext) + k] = ext[k]}

C24_StatsExact ==
    \A r \in Runs :
        Latest(r) /\ hist[r].outcome = "done" =>
            LET stats == updater[r].stats
                m == creator[r].webhook_mappings
                \* The new URLs of the run's mappings that the file holds and
                \* did not hold when the run scanned it: one for each
                \* occurrence replaced.
                replaced == [f \in Files |->
                                Sum([i \in 1..Len(m) |-> Count(tree[f], m[i][2])
                                                         - Count(hist[r].pre[f], m[i][2])],
                                    1..Len(m))]
            IN /\ stats.files_updated =
                    Cardinality({f \in Files : tree[f] # hist[r].pre[f]})
               /\ stats.replacements =
                    Sum([f \in Files |-> IF tree[f] # hist[r].pre[f] THEN replaced[f] ELSE 0],
                        Files)
               /\ stats.files_backed_up =
                    Cardinality({b \in updater[r].backup_dir : b.complete})

\* The files on which the run's call of _update_file met no failure and
\* found an old URL to replace.
Rewritten(r) ==
    {f \in Files : /\ hist[r].update_calls[f] = 1
                   /\ f \notin hist[r].io_failed
                   /\ Rewrite(hist[r].pre[f], creator[r].webhook_mappings).replacements > 0}

\* C25.  Whether backups are enabled or not, a file that _update_file
\* rewrites without a failure holds the same content afterwards, every other
\* file the run did not fail on holds what it held, and files_updated and
\* replacements count the same files and occurrences; with backups disabled
\* the run makes no backup directory, writes no backup file, and
\* files_backed_up stays 0.
C25_BackupsOptional ==
    \A r \in Runs :
        LET m == creator[r].webhook_mappings
            rewritten == Rewritten(r)
            counts == [f \in Files |->
                        IF f \in rewritten THEN Rewrite(hist[r].pre[f], m).replacements ELSE 0]
        IN /\ Latest(r) =>
                \A f \in Files \ hist[r].io_failed :
                    tree[f] = IF f \in rewritten THEN Rewrite(hist[r].pre[f], m).content
                              ELSE hist[r].pre[f]
           /\ updater[r].stats.files_updated = Cardinality(rewritten)
           /\ updater[r].stats.replacements = Sum(counts, Files)
           /\ ~create_backups =>
                /\ ~updater[r].backup_made
                /\ updater[r].backup_dir = {}
                /\ updater[r].stats.files_backed_up = 0

\* With backups disabled, a run rewrote the two files of a resource.
C25_Witness ==
    /\ ~create_backups
    /\ Latest(1) /\ hist[1].outcome = "done"
    /\ Rewritten(1) = {1, 2}
    /\ tree[1] # hist[1].pre[1] /\ tree[2] # hist[1].pre[2]
    /\ updater[1].stats.files_updated = 2

\* scan has returned.
ScanOver == call.op = "scan" /\ call.output # << >>

\* The indexes and counters that _scan_file writes.
Indexes(sc) ==
    <<sc.webhooks_by_resource, sc.file_occurrences, sc.webhooks_found,
      sc.files_with_webhooks, sc.resources_found>>

\* C26.  In scan, a file that cannot be opened or read leaves
\* webhooks_by_resource, file_occurrences, webhooks_found,
\* files_with_webhooks and resources_found as they were, and the loop goes on
\* with the file after it; scan ends, having scanned every file that could
\* be read.
C26_UnreadableSkipped ==
    /\ [][\A f \in Files :
            f \in hist[1].unread' \ hist[1].unread =>
                /\ Indexes(scanner[1])' = Indexes(scanner[1])
                /\ call.input = f /\ call'.input = f + 1]_vars
    /\ [](ScanOver =>
            /\ scanner[1] = ScanResult(hist[1].unread)
            /\ \A f \in Files \ hist[1].unread :
                \A u \in Range(CandidatesOf(1, f)) :
                    Accepted[u] =>
                        \E i \in 1..Len(scanner[1].file_occurrences[u]) :
                            scanner[1].file_occurrences[u][i][1] = f)
    /\ <>ScanOver

\* scan is over: the first file could not be read, and the URLs of the
\* files after it are in the indexes.
C26_Witness ==
    /\ ScanOver
    /\ hist[1].unread = {1}
    /\ hist[1].pre[1] = <<"K", "U1", "Q">>
    /\ hist[1].pre[2] = <<"U2">>
    /\ hist[1].pre[3] = <<"U1">>
    /\ DOMAIN scanner[1].file_occurrences = {<<"U1">>, <<"U2">>}
    /\ scanner[1].webhooks_found = 2

\* C30.  The indexes and the counters of the scanner agree: the keys of
\* file_occurrences are the URLs of webhooks_by_resource; an occurrence
\* (file, resource) of a URL has the URL among those of the resource;
\* resources_found is the key set of webhooks_by_resource; webhooks_found is
\* the number of occurrences; files_with_webhooks is the number of files
\* with an occurrence, and after scan it is at most files_scanned.
C30_IndexesAgree ==
    call.op = "scan" =>
        LET sc == scanner[1]
            by_resource == sc.webhooks_by_resource
            occurrences == sc.file_occurrences
        IN /\ DOMAIN occurrences = UNION {by_resource[res] : res \in DOMAIN by_resource}
           /\ \A u \in DOMAIN occurrences :
                \A i \in 1..Len(occurrences[u]) :
                    /\ occurrences[u][i][2] \in DOMAIN by_resource
                    /\ u \in by_resource[occurrences[u][i][2]]
           /\ sc.resources_found = DOMAIN by_resource
           /\ sc.webhooks_found =
                Sum([u \in DOMAIN occurrences |-> Len(occurrences[u])], DOMAIN occurrences)
           /\ sc.files_with_webhooks =
                Cardinality({f \in Files : \E u \in DOMAIN occurrences :
                                \E i \in 1..Len(occurrences[u]) : occurrences[u][i][1] = f})
           /\ ScanOver => sc.files_with_webhooks <= sc.files_scanned

\* scan is over: it found one URL in two resources, three times in the file
\* of one of them, and another URL.
C30_Witness ==
    /\ ScanOver
    /\ hist[1].unread = {}
    /\ DOMAIN scanner[1].webhooks_by_resource = {seg_shop, seg_bank}
    /\ scanner[1].webhooks_by_resource[seg_shop] = {<<"U1">>, <<"U2">>}
    /\ scanner[1].webhooks_by_resource[seg_bank] = {<<"U1">>}
    /\ Len(scanner[1].file_occurrences[<<"U1">>]) = 4
    /\ scanner[1].webhooks_found = 5
    /\ scanner[1].files_with_webhooks = 3
    /\ scanner[1].files_scanned = 3

\* C27.  For a URL found under several resources create_all creates one
\* endpoint per resource, and webhook_mappings holds for the URL the endpoint
\* created last, which is the one of the resource with the greatest name;
\* update_all rewrites every occurrence of the URL, in the files of every
\* resource, to that endpoint, and to no other endpoint created for the URL.
C27_LastResourceWins ==
    \A r \in Runs :
        \A u \in DictKeys(creator[r].webhook_mappings) :
            LET made == SelectSeq(hist[r].hooks, LAMBDA h : h.old_url = u)
                winner == made[Len(made)]
                \* The URL was found under two resources at least, and the
                \* run created an endpoint for each of them.
                shared ==
                    /\ Len(made) >= 2
                    /\ \A res \in DOMAIN scanner[r].webhooks_by_resource :
                        u \in scanner[r].webhooks_by_resource[res] =>
                            \E i \in 1..Len(made) : made[i].resource = res
            IN /\ \A i, j \in 1..Len(made) :
                    i # j => /\ made[i].resource # made[j].resource
                             /\ made[i].new_url # made[j].new_url
               /\ DictGet(creator[r].webhook_mappings, u) = winner.new_url
               /\ shared =>
                    /\ \A res \in DOMAIN scanner[r].webhooks_by_resource :
                        u \in scanner[r].webhooks_by_resource[res] =>
                            res = winner.resource \/ NameLess(res, winner.resource)
                    /\ Latest(r) =>
                        \A f \in Files :
                            /\ \A i \in 1..(Len(made) - 1) : Count(tree[f], made[i].new_url) = 0
                            /\ f \in hist[r].written =>
                                /\ Count(tree[f], u) = 0
                                /\ Count(tree[f], winner.new_url) = Count(hist[r].pre[f], u)

\* A run found one URL in the files of two resources, created an endpoint
\* for each, and rewrote the files of both to the endpoint of the second.
C27_Witness ==
    /\ Latest(1) /\ hist[1].outcome = "done"
    /\ hist[1].pre = << <<"K", "U1", "Q">>, <<"U1">>, <<"U1">> >>
    /\ Len(hist[1].hooks) = 2
    /\ hist[1].hooks[1].resource = seg_bank /\ hist[1].hooks[2].resource = seg_shop
    /\ creator[1].webhook_mappings = << << <<"U1">>, <<"N2">> >> >>
    /\ tree = << <<"K", "N2", "Q">>, <<"N2">>, <<"N2">> >>

\* The run created the channel, and its lookup (line 251) had not seen the
\* other channel.
MadeUnseen(r, id, other) ==
    \E i \in 1..Len(hist[r].made) :
        hist[r].made[i].id = id /\ other \notin hist[r].made[i].seen

\* C28.  Nothing keeps two invocations apart, and the lookup of a channel and
\* its creation are two steps with an await between them: two channels of
\* one name come to be in the category, and only so, when two runs each
\* looked the name up before the other's channel was there and each created
\* one.
C28_LookupNotAtomic ==
    \A c1, c2 \in channels :
        c1.id # c2.id /\ c1.name = c2.name =>
            \E r1, r2 \in Runs :
                /\ r1 # r2
                /\ MadeUnseen(r1, c1.id, c2.id)
                /\ MadeUnseen(r2, c2.id, c1.id)

\* Two runs each found no channel for the resource and each created one: the
\* category holds two channels of one name, and each run recorded its own.
C28_Witness ==
    /\ \E c1, c2 \in channels : c1.id # c2.id /\ c1.name = c2.name
    /\ Len(creator[1].created_channels) = 1
    /\ Len(creator[2].created_channels) = 1
    /\ creator[1].created_channels[1].name = creator[2].created_channels[1].name
    /\ creator[1].created_channels[1].id # creator[2].created_channels[1].id

\* C29.  The stages of scan_webhooks follow one another: a file is modified
\* only by a call of _update_file of a run whose create_all has returned
\* True; webhook_mappings changes only before the run's first call of
\* _update_file; and a run whose scan found no webhook makes no remote call
\* and modifies no file.
C29_StageOrder ==
    /\ [][/\ \A f \in Files :
                tree'[f] # tree[f] =>
                    \E r \in Runs :
                        /\ creator[r].result = "true"
                        /\ pc[r] = "update"
                        /\ hist[r].update_calls'[f] = hist[r].update_calls[f] + 1
          /\ \A r \in Runs :
                creator[r].webhook_mappings' # creator[r].webhook_mappings =>
                    /\ creator[r].result = "none"
                    /\ \A f \in Files : hist[r].update_calls[f] = 0]_vars
    /\ [](\A r \in Runs :
            /\ hist[r].outcome = "no_webhooks" =>
                /\ hist[r].last = "none"
                /\ hist[r].channels_created = 0
                /\ hist[r].endpoints_created = 0
                /\ \A f \in Files : hist[r].update_calls[f] = 0
                /\ updater[r] = IdleUpdater
            /\ (\E f \in Files : hist[r].update_calls[f] > 0) => creator[r].result = "true")

\* A run whose create_all returned True with two mappings has rewritten one
\* file and has another to rewrite.
C29_Witness ==
    /\ pc[1] = "update"
    /\ creator[1].result = "true"
    /\ Len(creator[1].webhook_mappings) = 2
    /\ Cardinality(hist[1].written) = 1
    /\ \E f \in Files : tree[f] # hist[1].pre[f]
    /\ updater[1].files_to_update # {}

\* Every occurrence of a mapped old URL replaced by that URL's own new URL, in
\* one pass over the content as it was read: where several mapped URLs begin
\* at a position, the URL that stands there is the longest of them.
RECURSIVE OwnReplaceFrom(_, _, _)
OwnReplaceFrom(content, mappings, i) ==
    IF i > Len(content) THEN << >>
    ELSE LET here == {k \in 1..Len(mappings) :
                        /\ i + Len(mappings[k][1]) - 1 <= Len(content)
                        /\ SubSeq(content, i, i + Len(mappings[k][1]) - 1) = mappings[k][1]}
         IN IF here = {} THEN <<content[i]>> \o OwnReplaceFrom(content, mappings, i + 1)
            ELSE LET k == CHOOSE a \in here :
                            \A b \in here : Len(mappings[b][1]) <= Len(mappings[a][1])
                 IN mappings[k][2]
                    \o OwnReplaceFrom(content, mappings, i + Len(mappings[k][1]))

\* C31.  _update_file with a mapping of several pairs replaces each occurrence
\* of each old URL by that URL's own new URL, also when one mapped old URL is
\* a proper prefix of another: the file written does not depend on the order
\* of the mapping, and no occurrence of the longer URL is rewritten with the
\* shorter URL's replacement.
C31_OwnReplacement ==
    1 \in hist[1].written =>
        tree[1] = OwnReplaceFrom(Decode(hist[1].pre[1]), creator[1].webhook_mappings, 1)

\* C32.  Within one run of create_all, no two records of created_channels
\* with different resource names carry the same channel id, also when the
\* names differ only in what _sanitize_name removes or normalises.
C32_DistinctChannels ==
    \A r \in Runs :
        LET made == creator[r].created_channels
        IN \A i, j \in 1..Len(made) :
            made[i].resource # made[j].resource => made[i].id # made[j].id

\* C33.  The name _extract_resource_name returns for a file is 'unknown' or
\* the stripped name of one of the directories between the scan root and the
\* file, never the file's own name: also for a file directly in the scan
\* root or directly inside a 'resources' directory.
C33_FromAncestor ==
    call.op = "extract_resource_name" /\ call.output # << >> =>
        LET parts == call.input.parts
        IN \/ call.output[1] = unknown
           \/ \E i \in 1..(Len(parts) - 1) : call.output[1] = Bare(parts[i])

=============================================================================
